---- MODULE Spec2Model ----
(***************************************************************************)
(* Model of the scheduled-action store (tasks/scheduled_actions_v2.py),    *)
(* the scheduler engine (tasks/scheduler_v2.py), the completion oracle's   *)
(* verdicts (tasks/action_executor_v2.py), the management CLI              *)
(* (tasks/schedule_cli.py) and the scheduling branch of the dialogue loop  *)
(* (agents/speedDemon.py).                                                 *)
(*                                                                         *)
(* Time: `clock' counts ticks of 1/Sub second, so that datetime.now()      *)
(* carries a sub-second part while every stored time string                *)
(* ('%Y-%m-%d %H:%M:%S') is a whole number of seconds.  Well-formed time   *)
(* strings compare like the seconds they denote, so a stored time is the   *)
(* integer number of seconds since midnight of the day the program starts. *)
(***************************************************************************)
EXTENDS Integers, Sequences, FiniteSets, TLC

\* ---------------------------------------------------------------- bounds
Sub == 2             \* clock ticks per second
MaxActions == 2      \* rows ever inserted
MaxAdvances == 3     \* clock jumps in one behaviour
StartSecond == 50    \* the behaviour starts at 00:00:50

\* ------------------------------------------------------ program constants
check_interval == 10
CameraRetryDelay == 10
ErrorRetryDelay == 60
SecondsPerDay == 86400
SecondsPerHour == 3600
SecondsPerMinute == 60

NoTime == -1         \* None / NULL in a time column
NoId == 0            \* no row (AUTOINCREMENT ids start at 1)

\* ------------------------------------------------------------ conversions
\* datetime.strftime('%Y-%m-%d %H:%M:%S'): drops the sub-second part
strftime(t) == t \div Sub

\* datetime.strptime(s, '%Y-%m-%d %H:%M:%S'): the instant at the full second
strptime(s) == s * Sub

\* datetime + timedelta(seconds = n)
plus_seconds(t, n) == t + n * Sub

\* now.replace(hour = h, minute = m, second = 0, microsecond = 0)
replace_hm(t, h, m) ==
    strptime((strftime(t) \div SecondsPerDay) * SecondsPerDay
             + h * SecondsPerHour + m * SecondsPerMinute)

\* t.replace(second = 0, microsecond = 0)
replace_s(t) == strptime((strftime(t) \div SecondsPerMinute) * SecondsPerMinute)

\* ------------------------------------------------------------------ state
VARIABLES
    clock,      \* wall clock, in ticks
    advances,   \* clock jumps taken so far
    db,         \* table scheduled_actions: id -> row, for the rows that exist
    nextId,     \* AUTOINCREMENT: the id the next insert gets
    running,    \* ActionScheduler.running
    pc,         \* position of the scheduler thread
    due,        \* due_actions of the tick in progress (snapshots)
    idx,        \* position of the for loop in due
    result,     \* verdict returned by execute_scheduled_action
    wake,       \* instant at which time.sleep(check_interval) returns
    mainpc,     \* position of the dialogue program (agents/speedDemon.py)
    request,    \* the SchedulingRequest of the dialogue turn in progress
    cli         \* position of the management CLI (tasks/schedule_cli.py)

\* ActionScheduler used through start() and stop() by any caller
VARIABLES
    loops,      \* the threads start() has created, in order: their positions
    released,   \* ActionExecutor.cam has been released (executor.cleanup())
    caller,     \* position of the caller of start() and stop()
    joinBy      \* instant at which the join(timeout=5) of stop() gives up

lifecycle == <<loops, released, caller, joinBy>>

\* TickTickPoller (ticktick/task_poller.py)
VARIABLES
    ppc,        \* position of the poller thread
    answer,     \* result of agent.ask in the check in progress
    cache,      \* _reminded_cache
    spoken      \* fingerprint -> reminders spoken since the last clear

pollerVars == <<ppc, answer, cache, spoken>>

\* ServoController (ServoController.py)
VARIABLES
    arduino,                \* "unopened", "connected" or "none"
    elevation_servo_pos,
    translation_servo_pos,
    rotation_stepper_deg,
    written,                \* the command the last call wrote to the link
    emitted,                \* channel -> the last value written for it
    call                    \* the last call of the controller

servoVars ==
    <<arduino, elevation_servo_pos, translation_servo_pos,
      rotation_stepper_deg, written, emitted, call>>

\* the camera and the workers that read it
VARIABLES
    mpos,        \* position of the main thread (wake word, centering, dialogue)
    iterations,  \* frames run_face_detection has read
    epos,        \* position of the engine thread
    todo,        \* due actions left in the engine's pass
    reading      \* the workers inside a read() of the camera

cameraVars == <<mpos, iterations, epos, todo, reading>>

\* motion sequences (agents/robot_actions.py)
VARIABLES
    left,  \* producer -> motor commands its running sequence has yet to write
    runs,  \* producer -> sequences it has started
    link   \* the motor commands written to the serial link, in order

motionVars ==
    <<left, runs, link>>

\* a turn of the dialogue loop (agents/speedDemon.py)
VARIABLES
    tpos,                  \* position of the main loop in its turn
    did,                   \* what the turn has done so far
    asked,                 \* how the sub-agent's ask ended in this turn
    task_result,           \* the text validate_task_need returned
    task_context,          \* the task context the turn's LLM call carries
    conversation_history   \* the roles of the turns kept

turnVars ==
    <<tpos, did, asked, task_result, task_context, conversation_history>>

\* a request of the sub-agent (ticktick/agent.py)
VARIABLES
    rpos,          \* position of _process_request
    conversation,  \* the conversation of the request
    replies,       \* the replies of the LLM to the request, in order
    llm_calls,     \* calls of generate_content made for the request
    tool_execs,    \* calls of call_tool made for the request
    returned       \* what the request returned

agentVars ==
    <<rpos, conversation, replies, llm_calls, tool_execs, returned>>

\* the workers and the end of the dialogue program (agents/speedDemon.py)
VARIABLES
    mainAt,    \* position of the main thread
    flags,     \* worker -> its running flag
    threads,   \* worker -> the state of its thread
    plan,      \* the stop calls the main thread has yet to make
    via,       \* how the dialogue loop ended
    timedOut   \* a join of the shutdown has timed out

shutdownVars ==
    <<mainAt, flags, threads, plan, via, timedOut>>

\* the follow-up timer (agents/libra.py)
VARIABLES
    lpos,              \* position of the main loop of libra
    turnNo,            \* user turns begun
    pending_followup,  \* the prompt waiting, with the turn that scheduled it
    followup_timer,    \* state of the threading.Timer
    saying,            \* the prompt execute_followup is about to say
    spokenLate         \* a follow-up of an earlier turn was spoken after a new turn began

followupVars ==
    <<lpos, turnNo, pending_followup, followup_timer, saying, spokenLate>>

\* the query cache of the search (search/search.py)
VARIABLES
    recent_query_cache,  \* the entries of _recent_query_cache, least recently accessed first
    fresh,               \* topics of the one-time queries used so far
    resolved,            \* the tier the LLM gave for the repeated topic and the cache stored
    lastReturn           \* the last call of determine_search_token_limit

searchVars ==
    <<recent_query_cache, fresh, resolved, lastReturn>>

\* TickTickPoller with its threads and the sub-agent it asks (ticktick/task_poller.py)
VARIABLES
    poller_running,  \* TickTickPoller._running
    poll_threads,    \* the threads start() has created, in order: where each is and its poll
    poll_caller,     \* position of the caller of start() and stop()
    agent_running,   \* TickTickAgent._running, with its session
    reminded_cache   \* _reminded_cache

reminderVars ==
    <<poller_running, poll_threads, poll_caller, agent_running,
      reminded_cache>>

\* a call of ask of the sub-agent (ticktick/agent.py)
VARIABLES
    ask_at,      \* position of the caller of ask
    ask_result   \* what ask returned to its caller

askVars ==
    <<ask_at, ask_result>>

\* the variables beside those of the scheduling program
ext ==
    <<lifecycle, pollerVars, servoVars, cameraVars, motionVars, turnVars,
      agentVars, shutdownVars, followupVars, searchVars, reminderVars,
      askVars>>

vars == <<clock, advances, db, nextId, running, pc, due, idx, result, wake,
          mainpc, request, cli, ext>>

Ids == 1..MaxActions

NoResult == [completed |-> FALSE, should_retry |-> FALSE, retry_delay |-> 0,
             overflow |-> FALSE, reason |-> "none"]

\* the amounts by which the clock may jump: a fraction of a second, one
\* sleep of the engine, an hour
Jumps == {1, check_interval * Sub, SecondsPerHour * Sub}

\* The engine handles a verdict as soon as execute_scheduled_action has
\* returned it: no step of another process and no passage of time is placed
\* between the return and the handling (placing it before the return gives
\* the same states).
Quiet == pc # "result"

\* ------------------------------------------------------------------ store
\* ScheduledAction.__init__: the attributes an action object has
ActionAttrs ==
    {"id", "command", "trigger_time", "completion_mode", "retry_until",
     "status", "attempt_count", "context", "last_attempt"}

\* the keyword parameters create_scheduled_action accepts
CreateParams ==
    {"command", "trigger_time", "completion_mode", "retry_until", "context"}

\* a call with a keyword the function does not declare raises TypeError
\* before the body runs
RaisesTypeError(kwargs) == ~(kwargs \subseteq CreateParams)

\* the row written by the INSERT of create_scheduled_action; the columns the
\* statement does not name take the defaults of the table
NewRow(command, trigger_time, completion_mode, retry_until, context) ==
    [command |-> command, trigger_time |-> trigger_time,
     completion_mode |-> completion_mode, retry_until |-> retry_until,
     status |-> "scheduled", attempt_count |-> 0, context |-> context,
     last_attempt |-> NoTime]

\* create_scheduled_action: the table after the insert
create_scheduled_action(table, id, row) == table @@ (id :> row)

\* the ScheduledAction object built from a row
Snapshot(table, id) == [id |-> id] @@ table[id]

\* IsDue without the condition on status
IsDue_AnyStatus(row, current_time) == row.trigger_time <= current_time

\* IsDue without the condition on trigger_time
IsDue_AnyTime(row, current_time) == row.status \in {"scheduled", "active"}

\* the WHERE clause of get_due_actions
IsDue(row, current_time) ==
    /\ row.status \in {"scheduled", "active"}
    /\ row.trigger_time <= current_time

DueIds(table, current_time) ==
    {i \in DOMAIN table : IsDue(table[i], current_time)}

\* Ordered without the ORDER BY: any order
Ordered_AnyOrder(s) == \A i, j \in DOMAIN s : i < j => s[i].id # s[j].id

\* ORDER BY trigger_time ASC
Ordered(s) ==
    \A i, j \in DOMAIN s : i < j => s[i].trigger_time <= s[j].trigger_time

\* get_due_actions: the result lists the query may return (rows with equal
\* trigger_time come in an order the query does not fix)
get_due_actions(table, current_time) ==
    LET S == DueIds(table, current_time)
        n == Cardinality(S)
    IN  {s \in [1..n -> {Snapshot(table, i) : i \in S}] :
            /\ \A i, j \in 1..n : i # j => s[i].id # s[j].id
            /\ Ordered(s)}

\* update_action_status with attempt_count supplied and no WHERE id = ?
update_status_count_NoWhere(table, id, status, attempt_count, now) ==
    [j \in DOMAIN table |->
        [table[j] EXCEPT !.status = status,
                         !.attempt_count = attempt_count,
                         !.last_attempt = strftime(now)]]

\* update_action_status with attempt_count supplied
update_status_count(table, id, status, attempt_count, now) ==
    IF id \in DOMAIN table
    THEN [table EXCEPT ![id].status = status,
                       ![id].attempt_count = attempt_count,
                       ![id].last_attempt = strftime(now)]
    ELSE table

\* update_action_status without attempt_count
update_status(table, id, status, now) ==
    IF id \in DOMAIN table
    THEN [table EXCEPT ![id].status = status,
                       ![id].last_attempt = strftime(now)]
    ELSE table

\* update_trigger_time that writes nothing
update_trigger_time_Keep(table, id, new_trigger_time) == table

\* update_trigger_time
update_trigger_time(table, id, new_trigger_time) ==
    IF id \in DOMAIN table
    THEN [table EXCEPT ![id].trigger_time = new_trigger_time]
    ELSE table

\* delete_scheduled_action
delete_scheduled_action(table, id) ==
    [i \in DOMAIN table \ {id} |-> table[i]]

\* ----------------------------------------------------------------- oracle
\* the verdict of execute_scheduled_action when cam.read() fails
CameraFailure ==
    [completed |-> FALSE, should_retry |-> TRUE, retry_delay |-> CameraRetryDelay,
     overflow |-> FALSE, reason |-> "Camera failure"]

\* the verdict when the LLM call or its parsing raises
OracleError ==
    [completed |-> FALSE, should_retry |-> TRUE, retry_delay |-> ErrorRetryDelay,
     overflow |-> FALSE, reason |-> "Error"]

\* a verdict built from a parsed ScheduledActionResponse; `overflow' says
\* that retry_delay_seconds is an integer so large that
\* datetime.now() + timedelta(seconds = retry_delay) is out of range
LLMVerdict(completed, should_retry, retry_delay, overflow) ==
    [completed |-> completed, should_retry |-> should_retry,
     retry_delay |-> retry_delay, overflow |-> overflow, reason |-> "llm"]

\* the retry_delay_seconds of the LLM's answers that ask for a retry
LLMDelay == 10

\* the answers of the LLM that are tried
LLMVerdicts ==
    {LLMVerdict(TRUE, FALSE, 0, FALSE), LLMVerdict(TRUE, TRUE, 0, FALSE),
     LLMVerdict(FALSE, FALSE, 0, FALSE),
     LLMVerdict(FALSE, TRUE, LLMDelay, FALSE),
     LLMVerdict(FALSE, TRUE, 0, TRUE)}

\* execute_scheduled_action: every verdict it may return
Verdicts == {CameraFailure, OracleError} \cup LLMVerdicts

\* ----------------------------------------------------------------- engine
\* the keywords _scheduler_loop passes when it spawns the next occurrence
SpawnKwargs ==
    {"command", "trigger_time", "completion_mode", "context", "recurring",
     "recurring_interval_seconds", "recurring_until", "parent_recurring_id"}

\* the attributes _scheduler_loop reads when an action has completed
RecurringAttrs ==
    {"recurring", "recurring_interval_seconds", "recurring_until",
     "parent_recurring_id"}

\* lines 72-100 of _scheduler_loop, after the action has been marked
\* completed: [table, nextId, raised]
HandleRecurring(a, table, nid, now) ==
    IF ~(RecurringAttrs \subseteq ActionAttrs)
    THEN \* AttributeError: 'ScheduledAction' object has no attribute
         [table |-> table, nextId |-> nid, raised |-> TRUE]
    ELSE IF ~(a.recurring /\ a.recurring_interval_seconds # 0)
    THEN [table |-> table, nextId |-> nid, raised |-> FALSE]
    ELSE IF a.recurring_until # NoTime /\ now >= strptime(a.recurring_until)
    THEN [table |-> table, nextId |-> nid, raised |-> FALSE]
    ELSE IF RaisesTypeError(SpawnKwargs)
    THEN [table |-> table, nextId |-> nid, raised |-> TRUE]
    ELSE [table |-> create_scheduled_action(table, nid,
                        NewRow(a.command,
                               strftime(plus_seconds(now, a.recurring_interval_seconds)),
                               a.completion_mode, NoTime, a.context)),
          nextId |-> nid + 1, raised |-> FALSE]

\* HandleRetry that reschedules with the attempt_count it read
HandleRetry_SameCount(a, v, table, nid, now) ==
    IF a.retry_until # NoTime /\ now > strptime(a.retry_until)
    THEN [table |-> update_status(table, a.id, "expired", now),
          nextId |-> nid, raised |-> FALSE]
    ELSE [table |-> update_status_count(
                        update_trigger_time(table, a.id,
                            strftime(plus_seconds(now, v.retry_delay))),
                        a.id, "scheduled", a.attempt_count, now),
          nextId |-> nid, raised |-> FALSE]

\* lines 102-118 of _scheduler_loop: the verdict asks for a retry
HandleRetry(a, v, table, nid, now) ==
    IF a.retry_until # NoTime /\ now > strptime(a.retry_until)
    THEN [table |-> update_status(table, a.id, "expired", now),
          nextId |-> nid, raised |-> FALSE]
    ELSE IF v.overflow
    THEN \* OverflowError: date value out of range
         [table |-> table, nextId |-> nid, raised |-> TRUE]
    ELSE [table |-> update_status_count(
                        update_trigger_time(table, a.id,
                            strftime(plus_seconds(now, v.retry_delay))),
                        a.id, "scheduled", a.attempt_count + 1, now),
          nextId |-> nid, raised |-> FALSE]

\* lines 67-122 of _scheduler_loop: what the engine does with the verdict v
\* for the due action a: [table, nextId, raised]
HandleVerdict(a, v, table, nid, now) ==
    IF v.completed
    THEN HandleRecurring(a, update_status(table, a.id, "completed", now), nid, now)
    ELSE IF v.should_retry
    THEN HandleRetry(a, v, table, nid, now)
    ELSE [table |-> update_status(table, a.id, "completed", now),
          nextId |-> nid, raised |-> FALSE]

\* line 57: update_action_status(action.id, 'active', action.attempt_count)
MarkActive(table, a, now) ==
    update_status_count(table, a.id, "active", a.attempt_count, now)

\* ActionScheduler.start(), called once by the dialogue program at start-up:
\* the thread is at `while self.running'
Start ==
    /\ mainpc = "init"
    /\ ~running
    /\ running' = TRUE
    /\ pc' = "sleep"
    /\ wake' = clock
    /\ mainpc' = "listening"
    /\ UNCHANGED <<clock, advances, db, nextId, due, idx, result, request, cli>>
    /\ UNCHANGED ext

\* ActionScheduler.stop(), called by the dialogue program on an exit word or
\* a keyboard interrupt
Stop ==
    /\ mainpc = "listening"
    /\ Quiet
    /\ running' = FALSE
    /\ mainpc' = "stopped"
    /\ UNCHANGED <<clock, advances, db, nextId, pc, due, idx, result, wake,
                   request, cli>>
    /\ UNCHANGED ext

\* one pass of `while self.running' up to the first oracle call: the sleep
\* has returned, current_time is read, get_due_actions is called and the
\* first due action is marked active
Tick ==
    /\ pc = "sleep"
    /\ clock >= wake
    /\ running
    /\ \E d \in get_due_actions(db, strftime(clock)) :
          IF Len(d) = 0
          THEN /\ wake' = plus_seconds(clock, check_interval)
               /\ UNCHANGED <<db, pc, due, idx>>
          ELSE /\ due' = d
               /\ idx' = 1
               /\ db' = MarkActive(db, d[1], clock)
               /\ pc' = "oracle"
               /\ wake' = wake
    /\ UNCHANGED <<clock, advances, nextId, running, result, mainpc, request, cli>>
    /\ UNCHANGED ext

\* `while self.running': the loop ends once running is false
LoopExit ==
    /\ pc = "sleep"
    /\ clock >= wake
    /\ ~running
    /\ pc' = "exited"
    /\ UNCHANGED <<clock, advances, db, nextId, running, due, idx, result, wake,
                   mainpc, request, cli>>
    /\ UNCHANGED ext

\* execute_scheduled_action returns its verdict
Execute ==
    /\ pc = "oracle"
    /\ \E v \in Verdicts : result' = v
    /\ pc' = "result"
    /\ UNCHANGED <<clock, advances, db, nextId, running, due, idx, wake, mainpc,
                   request, cli>>
    /\ UNCHANGED ext

\* the branches on the verdict; then the next due action is marked active,
\* or the tick ends and the thread sleeps: after the last due action, or in
\* the handler of line 126 when an exception was raised
Handle ==
    /\ pc = "result"
    /\ LET out == HandleVerdict(due[idx], result, db, nextId, clock)
       IN  /\ nextId' = out.nextId
           /\ IF out.raised \/ idx = Len(due)
              THEN /\ db' = out.table
                   /\ pc' = "sleep"
                   /\ wake' = plus_seconds(clock, check_interval)
                   /\ due' = <<>>
                   /\ idx' = 1
              ELSE /\ db' = MarkActive(out.table, due[idx + 1], clock)
                   /\ pc' = "oracle"
                   /\ wake' = wake
                   /\ due' = due
                   /\ idx' = idx + 1
    /\ result' = NoResult
    /\ UNCHANGED <<clock, advances, running, mainpc, request, cli>>
    /\ UNCHANGED ext

\* time passes
Advance ==
    /\ advances < MaxAdvances
    /\ Quiet
    /\ \E d \in Jumps : clock' = clock + d
    /\ advances' = advances + 1
    /\ UNCHANGED <<db, nextId, running, pc, due, idx, result, wake, mainpc,
                   request, cli>>
    /\ UNCHANGED ext

\* -------------------------------------------------------------------- CLI
\* hour and minute typed at the prompts
Hours == {0}
Minutes == {1}

\* "Calculate trigger time (today or tomorrow)": schedule_wake_up and
\* schedule_reminder
cli_trigger(now, hour, minute) ==
    LET trigger == replace_hm(now, hour, minute)
    IN  IF trigger <= now THEN plus_seconds(trigger, SecondsPerDay) ELSE trigger

\* the keywords each caller passes to create_scheduled_action
WakeUpKwargs == {"command", "trigger_time", "completion_mode", "retry_until"}
ReminderKwargs == {"command", "trigger_time", "completion_mode"}
RecurringKwargs ==
    {"command", "trigger_time", "completion_mode", "recurring",
     "recurring_interval_seconds", "recurring_until"}
DialogueKwargs ==
    {"command", "trigger_time", "completion_mode", "retry_until", "context",
     "recurring", "recurring_interval_seconds", "recurring_until"}

\* schedule_wake_up
ScheduleWakeUp ==
    /\ cli = "menu"
    /\ Quiet
    /\ ~RaisesTypeError(WakeUpKwargs)
    /\ nextId <= MaxActions
    /\ \E hour \in Hours, minute \in Minutes :
          LET trigger == cli_trigger(clock, hour, minute)
              retry_until == strftime(plus_seconds(trigger, SecondsPerHour))
          IN  db' = create_scheduled_action(db, nextId,
                        NewRow("Wake me up", strftime(trigger),
                               "retry_with_condition", retry_until, "null"))
    /\ nextId' = nextId + 1
    /\ UNCHANGED <<clock, advances, running, pc, due, idx, result, wake, mainpc,
                   request, cli>>
    /\ UNCHANGED ext

\* schedule_reminder
ScheduleReminder ==
    /\ cli = "menu"
    /\ Quiet
    /\ ~RaisesTypeError(ReminderKwargs)
    /\ nextId <= MaxActions
    /\ \E hour \in Hours, minute \in Minutes :
          LET trigger == cli_trigger(clock, hour, minute)
          IN  db' = create_scheduled_action(db, nextId,
                        NewRow("Remind me", strftime(trigger), "one_shot",
                               NoTime, "null"))
    /\ nextId' = nextId + 1
    /\ UNCHANGED <<clock, advances, running, pc, due, idx, result, wake, mainpc,
                   request, cli>>
    /\ UNCHANGED ext

\* interval typed at the prompt of schedule_recurring_task, in minutes
Intervals == {1}

\* schedule_recurring_task: option 4 is chosen and the prompts are answered
\* (the end time is left blank)
AskRecurringTask ==
    /\ cli = "menu"
    /\ Quiet
    /\ cli' = "recurring"
    /\ UNCHANGED <<clock, advances, db, nextId, running, pc, due, idx, result,
                   wake, mainpc, request>>
    /\ UNCHANGED ext

\* schedule_recurring_task: the call of create_scheduled_action; nothing
\* catches its TypeError, which ends the CLI
ScheduleRecurringTask ==
    /\ cli = "recurring"
    /\ Quiet
    /\ IF RaisesTypeError(RecurringKwargs)
       THEN /\ cli' = "crashed"
            /\ UNCHANGED <<db, nextId>>
       ELSE /\ nextId <= MaxActions
            /\ \E interval_minutes \in Intervals :
                  db' = create_scheduled_action(db, nextId,
                            NewRow("task",
                                   strftime(replace_s(plus_seconds(clock,
                                       interval_minutes * SecondsPerMinute))),
                                   "one_shot", NoTime, "null"))
            /\ nextId' = nextId + 1
            /\ cli' = "menu"
    /\ UNCHANGED <<clock, advances, running, pc, due, idx, result, wake, mainpc,
                   request>>
    /\ UNCHANGED ext

\* the CLI is started again
RestartCli ==
    /\ cli = "crashed"
    /\ Quiet
    /\ cli' = "menu"
    /\ UNCHANGED <<clock, advances, db, nextId, running, pc, due, idx, result,
                   wake, mainpc, request>>
    /\ UNCHANGED ext

\* delete_action: delete_scheduled_action for the id typed at the prompt
DeleteAction ==
    /\ cli = "menu"
    /\ Quiet
    /\ \E id \in Ids : db' = delete_scheduled_action(db, id)
    /\ UNCHANGED <<clock, advances, nextId, running, pc, due, idx, result, wake,
                   mainpc, request, cli>>
    /\ UNCHANGED ext

\* --------------------------------------------------------------- dialogue
NoRequest == [should_schedule |-> FALSE, trigger_time |-> NoTime]

\* trigger_time of a SchedulingRequest: whatever the LLM answered, a past
\* time included
LLMTriggers(now) ==
    {strftime(now) - SecondsPerMinute, strftime(now) + SecondsPerMinute}

\* the main loop hears an utterance and parse_scheduling_request returns a
\* request for it
Hear ==
    /\ mainpc = "listening"
    /\ Quiet
    /\ \E t \in LLMTriggers(clock) :
          request' = [should_schedule |-> TRUE, trigger_time |-> t]
    /\ mainpc' = "scheduling"
    /\ UNCHANGED <<clock, advances, db, nextId, running, pc, due, idx, result,
                   wake, cli>>
    /\ UNCHANGED ext

\* the scheduling branch of the main loop: create_scheduled_action is called
\* with the request's fields; an exception is caught by the except of line
\* 280 and the loop goes on
DialogueSchedule ==
    /\ mainpc = "scheduling"
    /\ Quiet
    /\ IF RaisesTypeError(DialogueKwargs)
       THEN UNCHANGED <<db, nextId>>
       ELSE /\ nextId <= MaxActions
            /\ db' = create_scheduled_action(db, nextId,
                        NewRow("command", request.trigger_time, "one_shot",
                               NoTime, "transcript"))
            /\ nextId' = nextId + 1
    /\ mainpc' = "listening"
    /\ request' = NoRequest
    /\ UNCHANGED <<clock, advances, running, pc, due, idx, result, wake, cli>>
    /\ UNCHANGED ext

\* ----------------------------------------------------------------- poller
\* characters of an answer of the sub-agent: white space, a letter, and "n"
\* for one of the phrases that say there is nothing due ("no tasks", ...)
Chars == {" ", "a", "n"}

\* length of the longest answer
MaxAnswerLen == 3

\* length of a fingerprint: result.strip()[:200], scaled down
KeyLen == 2

\* reminders counted per fingerprint
MaxSpoken == 2

\* the answers agent.ask may give, the empty one among them
Answers == UNION {[1..n -> Chars] : n \in 0..MaxAnswerLen}

\* str.strip(): without the white space at both ends
RECURSIVE lstrip(_)
lstrip(s) == IF s # <<>> /\ Head(s) = " " THEN lstrip(Tail(s)) ELSE s

RECURSIVE rstrip(_)
rstrip(s) ==
    IF s # <<>> /\ s[Len(s)] = " " THEN rstrip(SubSeq(s, 1, Len(s) - 1)) ELSE s

strip(s) == rstrip(lstrip(s))

\* s[:n]
Prefix(s, n) == SubSeq(s, 1, IF Len(s) < n THEN Len(s) ELSE n)

\* result_key = result.strip()[:200]
result_key(result_text) == Prefix(strip(result_text), KeyLen)

Fingerprints == {result_key(a) : a \in Answers}

\* any(phrase in result_lower for phrase in [...])
NothingDue(result_text) == \E i \in DOMAIN result_text : result_text[i] = "n"

\* the variables the poller leaves alone
besidePoller ==
    <<clock, advances, db, nextId, running, pc, due, idx, result, wake,
      mainpc, request, cli, lifecycle, servoVars, cameraVars, motionVars,
      turnVars, agentVars, shutdownVars, followupVars, searchVars,
      reminderVars, askVars>>

\* TickTickPoller.start(): the thread starts with a sleep
PollerStart ==
    /\ ppc = "idle"
    /\ ppc' = "sleep"
    /\ UNCHANGED <<answer, cache, spoken>>
    /\ UNCHANGED besidePoller

\* _check_and_remind up to the test of the cache: agent.ask returns, and
\* the check ends when there is nothing to say or the key is in the cache
PollCheck ==
    /\ ppc = "sleep"
    /\ \E a \in Answers :
          IF a = <<>> \/ NothingDue(a) \/ result_key(a) \in cache
          THEN UNCHANGED <<ppc, answer>>
          ELSE ppc' = "adding" /\ answer' = a
    /\ UNCHANGED <<cache, spoken>>
    /\ UNCHANGED besidePoller

\* self._reminded_cache.add(result_key), then the attention gesture starts
PollAdd ==
    /\ ppc = "adding"
    /\ cache' = cache \cup {result_key(answer)}
    /\ ppc' = "gesture"
    /\ UNCHANGED <<answer, spoken>>
    /\ UNCHANGED besidePoller

\* the gesture is over and voice_fn(reminder) speaks
PollSpeak ==
    /\ ppc = "gesture"
    /\ spoken[result_key(answer)] < MaxSpoken
    /\ spoken' = [spoken EXCEPT ![result_key(answer)] = @ + 1]
    /\ ppc' = "sleep"
    /\ answer' = <<>>
    /\ UNCHANGED cache
    /\ UNCHANGED besidePoller

\* clear_reminder_cache(), called from another thread
ClearReminderCache ==
    /\ cache' = {}
    /\ spoken' = [k \in Fingerprints |-> 0]
    /\ UNCHANGED <<ppc, answer>>
    /\ UNCHANGED besidePoller

NextPoller ==
    \/ PollerStart
    \/ PollCheck
    \/ PollAdd
    \/ PollSpeak
    \/ ClearReminderCache

\* ------------------------------------------------------------------ servo
MIN_STEPPER_DEG == -180

MAX_STEPPER_DEG == 180

elevation_motor_port == 8

translation_motor_port == 0

\* self.max_servo_change
max_servo_change == 80

\* the channels move_servo accepts
Channels == 0..15

\* no value written yet for a channel
NoValue == -1

NoCommand == [kind |-> "none"]

NoCall == [op |-> "none", args |-> <<>>]

\* amounts of the relative servo moves
Amounts == {30, -90}

\* arguments of a direct move_servo
DirectChannels == {elevation_motor_port, 16}

DirectValues == {0, 100, 101}

\* degrees of the rotations
Degrees == {90, 120}

abs(x) == IF x < 0 THEN -x ELSE x

max(a, b) == IF a > b THEN a ELSE b

min(a, b) == IF a < b THEN a ELSE b

\* _clamp_servo
clamp_servo(value) == max(0, min(100, value))

\* _clamp_rotation
clamp_rotation(value) == max(MIN_STEPPER_DEG, min(MAX_STEPPER_DEG, value))

\* _safe_servo_move
safe_servo_move(current_pos, target_change) ==
    IF abs(target_change) > max_servo_change
    THEN IF target_change > 0 THEN max_servo_change ELSE -max_servo_change
    ELSE target_change

\* move_servo without the test of its arguments
move_servo_Unchecked(channel, value) ==
    IF arduino # "connected"
    THEN [ok |-> FALSE, cmd |-> NoCommand]
    ELSE [ok |-> TRUE,
          cmd |-> [kind |-> "s", channel |-> channel, value |-> value]]

\* move_servo: what it returns and what it writes
move_servo(channel, value) ==
    IF arduino # "connected"
    THEN [ok |-> FALSE, cmd |-> NoCommand]
    ELSE IF ~(0 <= channel /\ channel <= 15 /\ 0 <= value /\ value <= 100)
    THEN [ok |-> FALSE, cmd |-> NoCommand]
    ELSE [ok |-> TRUE,
          cmd |-> [kind |-> "s", channel |-> channel, value |-> value]]

\* move_stepper without the test of the envelope
move_stepper_NoEnvelope(direction, degrees) ==
    IF arduino # "connected"
    THEN [ok |-> FALSE, cmd |-> NoCommand]
    ELSE [ok |-> TRUE,
          cmd |-> [kind |-> "step", direction |-> direction,
                   steps |-> (degrees * 1000) \div 180]]

\* move_stepper with degrees given, direction "left" or "right"
move_stepper(direction, degrees) ==
    LET steps == (degrees * 1000) \div 180
        new_step_deg == IF direction = "left"
                        THEN rotation_stepper_deg - degrees
                        ELSE rotation_stepper_deg + degrees
    IN  IF arduino # "connected"
        THEN [ok |-> FALSE, cmd |-> NoCommand]
        ELSE IF new_step_deg < MIN_STEPPER_DEG \/ new_step_deg > MAX_STEPPER_DEG
        THEN [ok |-> FALSE, cmd |-> NoCommand]
        ELSE [ok |-> TRUE,
              cmd |-> [kind |-> "step", direction |-> direction,
                       steps |-> steps]]

\* the link and the record of the values written, after a call that wrote cmd
Write(cmd) ==
    /\ written' = cmd
    /\ emitted' = IF cmd.kind = "s"
                  THEN [emitted EXCEPT ![cmd.channel] = cmd.value]
                  ELSE emitted

\* the variables the controller leaves alone
besideServo ==
    <<clock, advances, db, nextId, running, pc, due, idx, result, wake,
      mainpc, request, cli, lifecycle, pollerVars, cameraVars, motionVars,
      turnVars, agentVars, shutdownVars, followupVars, searchVars,
      reminderVars, askVars>>

\* ServoController.__init__ and _connect: the port opens or it does not
Connect ==
    /\ arduino = "unopened"
    /\ arduino' \in {"connected", "none"}
    /\ UNCHANGED <<elevation_servo_pos, translation_servo_pos,
                   rotation_stepper_deg, written, emitted, call>>
    /\ UNCHANGED besideServo

\* move_up and move_down: the elevation servo moves by change
Elevate(change) ==
    LET safe_value == safe_servo_move(elevation_servo_pos, change)
        new_pos == clamp_servo(elevation_servo_pos + safe_value)
        shifted == move_servo(elevation_motor_port, new_pos)
    IN  IF new_pos # elevation_servo_pos
        THEN /\ Write(shifted.cmd)
             /\ elevation_servo_pos' =
                    IF shifted.ok THEN new_pos ELSE elevation_servo_pos
        ELSE /\ Write(NoCommand)
             /\ UNCHANGED elevation_servo_pos

\* move_forward and move_backward: the translation servo moves by change
Translate(change) ==
    LET safe_value == safe_servo_move(translation_servo_pos, change)
        new_pos == clamp_servo(translation_servo_pos + safe_value)
        shifted == move_servo(translation_motor_port, new_pos)
    IN  IF new_pos # translation_servo_pos
        THEN /\ Write(shifted.cmd)
             /\ translation_servo_pos' =
                    IF shifted.ok THEN new_pos ELSE translation_servo_pos
        ELSE /\ Write(NoCommand)
             /\ UNCHANGED translation_servo_pos

\* move_left and move_right: the stepper turns to new_rotation
Rotate(direction, degrees, new_rotation) ==
    LET success == move_stepper(direction, abs(degrees))
    IN  IF new_rotation # rotation_stepper_deg
        THEN /\ Write(success.cmd)
             /\ rotation_stepper_deg' =
                    IF success.ok THEN new_rotation ELSE rotation_stepper_deg
        ELSE /\ Write(NoCommand)
             /\ UNCHANGED rotation_stepper_deg

MoveUp ==
    /\ arduino # "unopened"
    /\ \E value \in Amounts :
          /\ Elevate(abs(value))
          /\ call' = [op |-> "move_up", args |-> <<value>>]
    /\ UNCHANGED <<arduino, translation_servo_pos, rotation_stepper_deg>>
    /\ UNCHANGED besideServo

MoveDown ==
    /\ arduino # "unopened"
    /\ \E value \in Amounts :
          /\ Elevate(-abs(value))
          /\ call' = [op |-> "move_down", args |-> <<value>>]
    /\ UNCHANGED <<arduino, translation_servo_pos, rotation_stepper_deg>>
    /\ UNCHANGED besideServo

MoveForward ==
    /\ arduino # "unopened"
    /\ \E value \in Amounts :
          /\ Translate(abs(value))
          /\ call' = [op |-> "move_forward", args |-> <<value>>]
    /\ UNCHANGED <<arduino, elevation_servo_pos, rotation_stepper_deg>>
    /\ UNCHANGED besideServo

MoveBackward ==
    /\ arduino # "unopened"
    /\ \E value \in Amounts :
          /\ Translate(-abs(value))
          /\ call' = [op |-> "move_backward", args |-> <<value>>]
    /\ UNCHANGED <<arduino, elevation_servo_pos, rotation_stepper_deg>>
    /\ UNCHANGED besideServo

MoveLeft(degrees) ==
    /\ arduino # "unopened"
    /\ Rotate("left", degrees,
              clamp_rotation(rotation_stepper_deg - abs(degrees)))
    /\ call' = [op |-> "move_left", args |-> <<degrees>>]
    /\ UNCHANGED <<arduino, elevation_servo_pos, translation_servo_pos>>
    /\ UNCHANGED besideServo

MoveRight(degrees) ==
    /\ arduino # "unopened"
    /\ Rotate("right", degrees,
              clamp_rotation(rotation_stepper_deg + abs(degrees)))
    /\ call' = [op |-> "move_right", args |-> <<degrees>>]
    /\ UNCHANGED <<arduino, elevation_servo_pos, translation_servo_pos>>
    /\ UNCHANGED besideServo

\* a direct move_servo, as the motion command 4 of a sequence makes it
MoveServo ==
    /\ arduino # "unopened"
    /\ \E channel \in DirectChannels, value \in DirectValues :
          /\ Write(move_servo(channel, value).cmd)
          /\ call' = [op |-> "move_servo", args |-> <<channel, value>>]
    /\ UNCHANGED <<arduino, elevation_servo_pos, translation_servo_pos,
                   rotation_stepper_deg>>
    /\ UNCHANGED besideServo

TurnLeft == \E degrees \in Degrees : MoveLeft(degrees)

TurnRight == \E degrees \in Degrees : MoveRight(degrees)

NextServo ==
    \/ Connect
    \/ MoveUp
    \/ MoveDown
    \/ MoveForward
    \/ MoveBackward
    \/ TurnLeft
    \/ TurnRight
    \/ MoveServo

\* ----------------------------------------------------------------- camera
\* max_iterations of run_face_detection, scaled down
MaxIterations == 3

\* the variables the readers of the camera leave alone
besideCamera ==
    <<clock, advances, db, nextId, running, pc, due, idx, result, wake,
      mainpc, request, cli, lifecycle, pollerVars, servoVars, motionVars,
      turnVars, agentVars, shutdownVars, followupVars, searchVars,
      reminderVars, askVars>>

\* listen_for_wake_word hears the wake word and run_face_detection opens
\* its capture
WakeWord ==
    /\ mpos = "listening"
    /\ mpos' = "centering"
    /\ iterations' = 0
    /\ UNCHANGED <<epos, todo, reading>>
    /\ UNCHANGED besideCamera

\* run_face_detection: cap.read() begins
CenterRead ==
    /\ mpos = "centering"
    /\ iterations < MaxIterations
    /\ mpos' = "centering_read"
    /\ reading' = reading \cup {"centering"}
    /\ UNCHANGED <<iterations, epos, todo>>
    /\ UNCHANGED besideCamera

\* cap.read() returns: no frame or a centred face ends the routine, any
\* other frame counts one iteration
CenterFrame ==
    /\ mpos = "centering_read"
    /\ reading' = reading \ {"centering"}
    /\ \E done \in BOOLEAN :
          IF done
          THEN mpos' = "transcribing" /\ UNCHANGED iterations
          ELSE mpos' = "centering" /\ iterations' = iterations + 1
    /\ UNCHANGED <<epos, todo>>
    /\ UNCHANGED besideCamera

\* the iterations are used up
CenterGiveUp ==
    /\ mpos = "centering"
    /\ iterations >= MaxIterations
    /\ mpos' = "transcribing"
    /\ UNCHANGED <<iterations, epos, todo, reading>>
    /\ UNCHANGED besideCamera

\* transcribe_audio returns: nothing heard or a scheduling request ends the
\* turn, anything else goes to get_response
Transcribed ==
    /\ mpos = "transcribing"
    /\ mpos' \in {"listening", "heard"}
    /\ UNCHANGED <<iterations, epos, todo, reading>>
    /\ UNCHANGED besideCamera

\* get_response: get_frame_data calls cam.read()
GetFrameData ==
    /\ mpos = "heard"
    /\ mpos' = "frame_read"
    /\ reading' = reading \cup {"dialogue"}
    /\ UNCHANGED <<iterations, epos, todo>>
    /\ UNCHANGED besideCamera

\* cam.read() returns, the model answers and the reply is spoken
Respond ==
    /\ mpos = "frame_read"
    /\ mpos' = "listening"
    /\ reading' = reading \ {"dialogue"}
    /\ UNCHANGED <<iterations, epos, todo>>
    /\ UNCHANGED besideCamera

\* the engine's sleep ends and get_due_actions gives its list
EngineDue ==
    /\ epos = "sleep"
    /\ \E n \in 0..MaxActions :
          /\ todo' = n
          /\ epos' = IF n = 0 THEN "sleep" ELSE "due"
    /\ UNCHANGED <<mpos, iterations, reading>>
    /\ UNCHANGED besideCamera

\* execute_scheduled_action: self.cam.read() begins
EngineCapture ==
    /\ epos = "due"
    /\ epos' = "capturing"
    /\ reading' = reading \cup {"engine"}
    /\ UNCHANGED <<mpos, iterations, todo>>
    /\ UNCHANGED besideCamera

\* self.cam.read() returns and the oracle is asked
EngineFrame ==
    /\ epos = "capturing"
    /\ epos' = "oracle"
    /\ reading' = reading \ {"engine"}
    /\ UNCHANGED <<mpos, iterations, todo>>
    /\ UNCHANGED besideCamera

\* the verdict is handled and the pass goes on
EngineVerdict ==
    /\ epos = "oracle"
    /\ todo' = todo - 1
    /\ epos' = IF todo = 1 THEN "sleep" ELSE "due"
    /\ UNCHANGED <<mpos, iterations, reading>>
    /\ UNCHANGED besideCamera

NextCamera ==
    \/ WakeWord
    \/ CenterRead
    \/ CenterFrame
    \/ CenterGiveUp
    \/ Transcribed
    \/ GetFrameData
    \/ Respond
    \/ EngineDue
    \/ EngineCapture
    \/ EngineFrame
    \/ EngineVerdict

\* ------------------------------------------------------------------- motion
\* the variables the motion sequences leave alone
besideMotion ==
    <<clock, advances, db, nextId, running, pc, due, idx, result, wake,
      mainpc, request, cli, lifecycle, pollerVars, servoVars, cameraVars,
      turnVars, agentVars, shutdownVars, followupVars, searchVars,
      reminderVars, askVars>>

\* the workers that start motion sequences: get_response, the executor of
\* scheduled actions, the poller's attention gesture
Producers == {"dialogue", "engine", "poller"}

\* motor commands of one sequence
SeqLen == 2

\* sequences one producer starts
MaxRuns == 1

\* a producer has a list of motor commands and starts
\* execute_motion_sequence on it, the dialogue and the engine in a thread of
\* its own, the poller in the poller's thread
BeginSequence(p) ==
    /\ left[p] = 0
    /\ runs[p] < MaxRuns
    /\ left' = [left EXCEPT ![p] = SeqLen]
    /\ runs' = [runs EXCEPT ![p] = @ + 1]
    /\ UNCHANGED link
    /\ UNCHANGED besideMotion

\* execute_motion_sequence: the next motor command goes to the controller,
\* which writes it to the link; then time.sleep(0.1)
WriteCommand(p) ==
    /\ left[p] > 0
    /\ link' = Append(link, [by |-> p, run |-> runs[p],
                             index |-> SeqLen - left[p] + 1])
    /\ left' = [left EXCEPT ![p] = @ - 1]
    /\ UNCHANGED runs
    /\ UNCHANGED besideMotion

Begin == \E p \in Producers : BeginSequence(p)

Command == \E p \in Producers : WriteCommand(p)

NextMotion ==
    \/ Begin
    \/ Command

\* --------------------------------------------------------------------- turn
\* the variables a dialogue turn leaves alone, the store apart
besideTurn ==
    <<clock, advances, running, pc, due, idx, result, wake, mainpc, request,
      cli, lifecycle, pollerVars, servoVars, cameraVars, motionVars,
      agentVars, shutdownVars, followupVars, searchVars, reminderVars,
      askVars>>

\* no context: None or the empty text
NoContext == ""

\* what TickTickAgent.ask returns
Answer == "3 tasks due today"

TimedOutText == "[TickTickAgent] Request timed out."

ErrorText == "[TickTickAgent] Error: "

\* turns kept in the history of the model
MaxHistory == 4

\* TickTickAgent.ask after future.result(timeout) has ended. A timeout
\* raises concurrent.futures.TimeoutError, which "except TimeoutError"
\* catches where it is the builtin (Python 3.11 on) and "except Exception"
\* catches elsewhere, the text of the exception being empty.
ask(outcome) ==
    CASE outcome = "answered" -> {Answer}
      [] outcome = "timed_out" -> {TimedOutText, ErrorText}
      [] outcome = "failed" -> {ErrorText}

\* the turn ends: by continue, by the end of the loop body or by the
\* except of the main loop
TurnOver == tpos' = "listening"

\* listen_for_wake_word returns a transcript without exit word and
\* parse_scheduling_request returns a request or None
TurnHear ==
    /\ tpos = "listening"
    /\ Len(conversation_history) + 2 <= MaxHistory
    /\ tpos' \in {"scheduling", "task"}
    /\ did' = {}
    /\ asked' = "none"
    /\ task_result' = NoContext
    /\ task_context' = NoContext
    /\ UNCHANGED conversation_history
    /\ UNCHANGED <<db, nextId>>
    /\ UNCHANGED besideTurn

\* the scheduling branch: create_scheduled_action, then the confirmation;
\* an exception of the call ends the turn in the except of the main loop
TurnSchedule ==
    /\ tpos = "scheduling"
    /\ IF RaisesTypeError(DialogueKwargs)
       THEN UNCHANGED <<db, nextId, did>>
       ELSE /\ nextId <= MaxActions
            /\ db' = create_scheduled_action(db, nextId,
                        NewRow("command", strftime(clock) + SecondsPerMinute,
                               "one_shot", NoTime, "transcript"))
            /\ nextId' = nextId + 1
            /\ did' = did \cup {"inserted", "confirmed"}
    /\ TurnOver
    /\ UNCHANGED <<asked, task_result, task_context, conversation_history>>
    /\ UNCHANGED besideTurn

\* validate_task_need: no keyword or agent not running
TaskNoKeyword ==
    /\ tpos = "task"
    /\ tpos' = "search"
    /\ UNCHANGED <<did, asked, task_result, task_context,
                   conversation_history, db, nextId>>
    /\ UNCHANGED besideTurn

\* validate_task_need: the LLM is asked whether the query is about tasks;
\* it says no, or the call raises
TaskNo ==
    /\ tpos = "task"
    /\ did' = did \cup {"task_classified"}
    /\ tpos' = "search"
    /\ UNCHANGED <<asked, task_result, task_context, conversation_history,
                   db, nextId>>
    /\ UNCHANGED besideTurn

\* validate_task_need: the LLM says yes and ask is called; its text is
\* returned with True
TaskYes ==
    /\ tpos = "task"
    /\ did' = did \cup {"task_classified"}
    /\ \E outcome \in {"answered", "timed_out", "failed"} :
          /\ asked' = outcome
          /\ task_result' \in ask(outcome)
    /\ tpos' = "search"
    /\ UNCHANGED <<task_context, conversation_history, db, nextId>>
    /\ UNCHANGED besideTurn

\* search.validate_search_need: the LLM is asked; an exception ends the turn
TurnSearch ==
    /\ tpos = "search"
    /\ did' = did \cup {"search_classified"}
    /\ tpos' \in {"respond", "listening"}
    /\ UNCHANGED <<asked, task_result, task_context, conversation_history,
                   db, nextId>>
    /\ UNCHANGED besideTurn

\* get_response: the camera gives no frame and "Camera input failed." is
\* the reply
CameraFailed ==
    /\ tpos = "respond"
    /\ TurnOver
    /\ UNCHANGED <<did, asked, task_result, task_context,
                   conversation_history, db, nextId>>
    /\ UNCHANGED besideTurn

\* get_response: the parts of the user turn are built, the task context
\* among them when it is not empty, the turn is appended to the history
\* and generate_content is called
CallLLM ==
    /\ tpos = "respond"
    /\ task_context' = task_result
    /\ conversation_history' = Append(conversation_history, "user")
    /\ did' = did \cup {"llm"}
    /\ tpos' = "llm"
    /\ UNCHANGED <<asked, task_result, db, nextId>>
    /\ UNCHANGED besideTurn

\* generate_content returns a response, the model's turn is appended and
\* the reply is spoken
Reply ==
    /\ tpos = "llm"
    /\ conversation_history' = Append(conversation_history, "model")
    /\ TurnOver
    /\ UNCHANGED <<did, asked, task_result, task_context, db, nextId>>
    /\ UNCHANGED besideTurn

\* generate_content raises, or its response has no parsed part: the
\* exception leaves get_response and the except of the main loop prints it
LLMFailed ==
    /\ tpos = "llm"
    /\ TurnOver
    /\ UNCHANGED <<did, asked, task_result, task_context,
                   conversation_history, db, nextId>>
    /\ UNCHANGED besideTurn

NextTurn ==
    \/ TurnHear
    \/ TurnSchedule
    \/ TaskNoKeyword
    \/ TaskNo
    \/ TaskYes
    \/ TurnSearch
    \/ CameraFailed
    \/ CallLLM
    \/ Reply
    \/ LLMFailed

\* ---------------------------------------------------------------- sub-agent
\* the variables a request of the sub-agent leaves alone
besideAgent ==
    <<clock, advances, db, nextId, running, pc, due, idx, result, wake,
      mainpc, request, cli, lifecycle, pollerVars, servoVars, cameraVars,
      motionVars, turnVars, shutdownVars, followupVars, searchVars,
      reminderVars, askVars>>

max_tool_rounds == 5

MaxRoundsText == "(TickTick agent reached max tool rounds without a final answer)"

\* nothing returned yet
NoReply == [fenced |-> FALSE, json |-> "none"]

\* the replies of the LLM: a text that is or is not JSON, with or without
\* a ``` fence around it
Replies ==
    [fenced : BOOLEAN, json : {"dict_with_tool", "dict_without_tool", "text"}]

\* the test of the reply: the fence is taken off, json.loads parses the
\* rest, and a dict with the key "tool" is a tool call
IsToolCall(reply) == reply.json = "dict_with_tool"

\* what goes to the conversation after a tool call
ToolOutputs == {"tool result", "tool error"}

\* for _ in range(max_tool_rounds), with no bound
RoundsLeft_Unbounded(n) == TRUE

\* for _ in range(max_tool_rounds): n rounds are over
RoundsLeft(n) == n < max_tool_rounds

\* _process_request starts: system prompt, the model's "Ready", the
\* instruction
RequestBegin ==
    /\ rpos \in {"idle", "returned", "raised"}
    /\ conversation' = <<"system", "ready", "instruction">>
    /\ replies' = <<>>
    /\ llm_calls' = 0
    /\ tool_execs' = 0
    /\ returned' = NoReply
    /\ rpos' = "round"
    /\ UNCHANGED besideAgent

\* a round begins with generate_content on the conversation
CallModel ==
    /\ rpos = "round"
    /\ RoundsLeft(llm_calls)
    /\ llm_calls' = llm_calls + 1
    /\ rpos' = "llm"
    /\ UNCHANGED <<conversation, replies, tool_execs, returned>>
    /\ UNCHANGED besideAgent

\* the reply is a tool call: it is appended and call_tool starts; any other
\* reply is returned
ModelReplies ==
    /\ rpos = "llm"
    /\ \E reply \in Replies :
          /\ replies' = Append(replies, reply)
          /\ IF IsToolCall(reply)
             THEN /\ conversation' = Append(conversation, "tool call")
                  /\ rpos' = "tool"
                  /\ UNCHANGED returned
             ELSE /\ returned' = reply
                  /\ rpos' = "returned"
                  /\ UNCHANGED conversation
    /\ UNCHANGED <<llm_calls, tool_execs>>
    /\ UNCHANGED besideAgent

\* generate_content raises and the exception leaves _process_request
ModelRaises ==
    /\ rpos = "llm"
    /\ rpos' = "raised"
    /\ UNCHANGED <<conversation, replies, llm_calls, tool_execs, returned>>
    /\ UNCHANGED besideAgent

\* call_tool returns or raises; its output or "Tool error: ..." is appended
\* as a user turn and the loop goes on
ToolReturns ==
    /\ rpos = "tool"
    /\ tool_execs' = tool_execs + 1
    /\ \E output \in ToolOutputs :
          conversation' = Append(conversation, output)
    /\ rpos' = "round"
    /\ UNCHANGED <<replies, llm_calls, returned>>
    /\ UNCHANGED besideAgent

\* the rounds are used up
MaxRounds ==
    /\ rpos = "round"
    /\ ~RoundsLeft(llm_calls)
    /\ returned' = [fenced |-> FALSE, json |-> MaxRoundsText]
    /\ rpos' = "returned"
    /\ UNCHANGED <<conversation, replies, llm_calls, tool_execs>>
    /\ UNCHANGED besideAgent

NextAgent ==
    \/ RequestBegin
    \/ CallModel
    \/ ModelReplies
    \/ ModelRaises
    \/ ToolReturns
    \/ MaxRounds

\* ----------------------------------------------------------------- shutdown
\* the variables the shutdown leaves alone
besideShutdown ==
    <<clock, advances, db, nextId, running, pc, due, idx, result, wake,
      mainpc, request, cli, lifecycle, pollerVars, servoVars, cameraVars,
      motionVars, turnVars, agentVars, followupVars, searchVars, reminderVars,
      askVars>>

Workers == {"scheduler", "poller", "agent"}

\* the stop calls after the dialogue loop, the sub-agent's left out
StopPlan_NoAgent(how) ==
    IF how = "exit_word"
    THEN <<"scheduler", "poller", "scheduler">>
    ELSE <<"poller", "scheduler", "poller", "scheduler">>

\* the stop calls the main thread makes once the dialogue loop is left: in
\* the branch that leaves the loop, then in the cleanup after it
StopPlan(how) ==
    IF how = "exit_word"
    THEN <<"scheduler", "poller", "scheduler", "agent">>
    ELSE <<"poller", "scheduler", "agent", "poller", "scheduler", "agent">>

\* the program starts: the scheduler is started, the sub-agent connects or
\* not, and the poller is started when the sub-agent runs
Boot ==
    /\ mainAt = "boot"
    /\ \E connected \in BOOLEAN :
          /\ flags' = [w \in Workers |->
                          IF w = "scheduler" THEN TRUE ELSE connected]
          /\ threads' = [w \in Workers |->
                          IF w = "poller" /\ ~connected THEN "none" ELSE "idle"]
    /\ mainAt' = "loop"
    /\ UNCHANGED <<plan, via, timedOut>>
    /\ UNCHANGED besideShutdown

\* a worker's loop finds its flag set and starts its work: the pass of the
\* scheduler, the check of the poller, a request of the sub-agent
WorkerBusy(w) ==
    /\ threads[w] = "idle"
    /\ flags[w]
    /\ threads' = [threads EXCEPT ![w] = "busy"]
    /\ UNCHANGED <<mainAt, flags, plan, via, timedOut>>
    /\ UNCHANGED besideShutdown

\* the work is over and the loop is back at its test
WorkerDone(w) ==
    /\ threads[w] = "busy"
    /\ threads' = [threads EXCEPT ![w] = "idle"]
    /\ UNCHANGED <<mainAt, flags, plan, via, timedOut>>
    /\ UNCHANGED besideShutdown

\* the loop finds its flag cleared and ends
WorkerExit(w) ==
    /\ threads[w] = "idle"
    /\ ~flags[w]
    /\ threads' = [threads EXCEPT ![w] = "exited"]
    /\ UNCHANGED <<mainAt, flags, plan, via, timedOut>>
    /\ UNCHANGED besideShutdown

\* an exit word is in the transcript, or KeyboardInterrupt is raised in a
\* call of the loop body
LeaveLoop ==
    /\ mainAt = "loop"
    /\ \E how \in {"exit_word", "interrupt"} :
          /\ via' = how
          /\ plan' = StopPlan(how)
    /\ mainAt' = "stopping"
    /\ UNCHANGED <<flags, threads, timedOut>>
    /\ UNCHANGED besideShutdown

\* stop() of the next worker: the flag is cleared and the thread is joined
StopWorker ==
    /\ mainAt = "stopping"
    /\ plan # <<>>
    /\ flags' = [flags EXCEPT ![Head(plan)] = FALSE]
    /\ mainAt' = "joining"
    /\ UNCHANGED <<threads, plan, via, timedOut>>
    /\ UNCHANGED besideShutdown

\* join(timeout=5) returns: the thread has ended, or the 5 s are over
JoinReturns ==
    /\ mainAt = "joining"
    /\ timedOut' = (timedOut \/ threads[Head(plan)] \in {"idle", "busy"})
    /\ plan' = Tail(plan)
    /\ mainAt' = "stopping"
    /\ UNCHANGED <<flags, threads, via>>
    /\ UNCHANGED besideShutdown

\* "Goodbye!": the main thread ends and the daemon threads end with it
ProcessExit ==
    /\ mainAt = "stopping"
    /\ plan = <<>>
    /\ mainAt' = "exited"
    /\ threads' = [w \in Workers |->
                      IF threads[w] = "none" THEN "none" ELSE "exited"]
    /\ UNCHANGED <<flags, plan, via, timedOut>>
    /\ UNCHANGED besideShutdown

WorkBegins == \E w \in Workers : WorkerBusy(w)

WorkOver == \E w \in Workers : WorkerDone(w)

LoopOver == \E w \in Workers : WorkerExit(w)

NextShutdown ==
    \/ Boot
    \/ WorkBegins
    \/ WorkOver
    \/ LoopOver
    \/ LeaveLoop
    \/ StopWorker
    \/ JoinReturns
    \/ ProcessExit

\* ---------------------------------------------------------------- follow-up
\* the variables the follow-up leaves alone
besideFollowup ==
    <<clock, advances, db, nextId, running, pc, due, idx, result, wake,
      mainpc, request, cli, lifecycle, pollerVars, servoVars, cameraVars,
      motionVars, turnVars, agentVars, shutdownVars, searchVars, reminderVars,
      askVars>>

\* no prompt
None == 0

\* user turns of a run
MaxTurns == 3

\* recognize_google returns an utterance while sending_to_gemini is set: a
\* new user turn has begun
UserSpeaks ==
    /\ lpos = "listening"
    /\ turnNo < MaxTurns
    /\ turnNo' = turnNo + 1
    /\ lpos' = "cancel"
    /\ UNCHANGED <<pending_followup, followup_timer, saying, spokenLate>>
    /\ UNCHANGED besideFollowup

\* if followup_timer: followup_timer.cancel(). The cancel stops a timer
\* that still waits and does nothing to one whose function has started.
CancelTimer ==
    /\ lpos = "cancel"
    /\ IF followup_timer = "none"
       THEN lpos' = "respond" /\ UNCHANGED followup_timer
       ELSE /\ lpos' = "clear"
            /\ followup_timer' =
                   IF followup_timer = "waiting" THEN "cancelled"
                   ELSE followup_timer
    /\ UNCHANGED <<turnNo, pending_followup, saying, spokenLate>>
    /\ UNCHANGED besideFollowup

\* pending_followup = None
ClearPending ==
    /\ lpos = "clear"
    /\ pending_followup' = None
    /\ lpos' = "respond"
    /\ UNCHANGED <<turnNo, followup_timer, saying, spokenLate>>
    /\ UNCHANGED besideFollowup

\* get_response: the reply asks for no follow-up
RespondPlain ==
    /\ lpos = "respond"
    /\ lpos' = "listening"
    /\ UNCHANGED <<turnNo, pending_followup, followup_timer, saying,
                   spokenLate>>
    /\ UNCHANGED besideFollowup

\* get_response: the reply asks for a follow-up and schedule_followup
\* cancels the old timer, stores the prompt and starts a new timer. A
\* function of the old timer that has started goes on.
schedule_followup ==
    /\ lpos = "respond"
    /\ followup_timer \in {"none", "waiting", "cancelled", "done"}
    /\ pending_followup' = turnNo
    /\ followup_timer' = "waiting"
    /\ lpos' = "listening"
    /\ UNCHANGED <<turnNo, saying, spokenLate>>
    /\ UNCHANGED besideFollowup

\* Timer.run: the delay is over, finished is not set, execute_followup is
\* called
TimerFires ==
    /\ followup_timer = "waiting"
    /\ followup_timer' = "fired"
    /\ UNCHANGED <<lpos, turnNo, pending_followup, saying, spokenLate>>
    /\ UNCHANGED besideFollowup

\* execute_followup: if pending_followup
TestPending ==
    /\ followup_timer = "fired"
    /\ followup_timer' = IF pending_followup # None THEN "tested" ELSE "done"
    /\ UNCHANGED <<lpos, turnNo, pending_followup, saying, spokenLate>>
    /\ UNCHANGED besideFollowup

\* engine.say(pending_followup): the prompt is read again and spoken
SayFollowup ==
    /\ followup_timer = "tested"
    /\ saying' = pending_followup
    /\ spokenLate' =
          (spokenLate \/ (pending_followup # None /\ pending_followup < turnNo))
    /\ followup_timer' = "said"
    /\ UNCHANGED <<lpos, turnNo, pending_followup>>
    /\ UNCHANGED besideFollowup

\* engine.runAndWait() returns and pending_followup = None
FollowupOver ==
    /\ followup_timer = "said"
    /\ pending_followup' = None
    /\ saying' = None
    /\ followup_timer' = "done"
    /\ UNCHANGED <<lpos, turnNo, spokenLate>>
    /\ UNCHANGED besideFollowup

NextFollowup ==
    \/ UserSpeaks
    \/ CancelTimer
    \/ ClearPending
    \/ RespondPlain
    \/ schedule_followup
    \/ TimerFires
    \/ TestPending
    \/ SayFollowup
    \/ FollowupOver

\* ------------------------------------------------------------------- search
\* the variables the token-limit router leaves alone
besideSearch ==
    <<clock, advances, db, nextId, running, pc, due, idx, result, wake,
      mainpc, request, cli, lifecycle, pollerVars, servoVars, cameraVars,
      motionVars, turnVars, agentVars, shutdownVars, followupVars,
      reminderVars, askVars>>

\* _cache_max_size
cache_max_size == 100

NoTier == 0

\* a query: its words, and the number that stands in it
NoQuery == [topic |-> -1, n |-> 0]

\* the topic that is asked again and again, with different numbers
Repeated == 0

\* the topic of a query that a pattern of QUERY_PATTERNS matches
Patterned == -2

PatternTier == 100

\* one-time queries of a run, one topic each
MaxFresh == 101

Numbers == {1, 2}

\* what the LLM answers for the repeated topic, 0 for an gemini that is no
\* tier or a call that raises
LLMTiers == {100, 250, 0}

\* get_query_fingerprint leaving the numbers in
get_query_fingerprint_Raw(query) == <<query.topic, query.n>>

\* get_query_fingerprint: numbers, days, months and teams are replaced by a
\* word each
get_query_fingerprint(query) == <<query.topic, "NUM">>

\* the pruning left out
Prune_Nothing(entries) == entries

\* the entries without the num_to_remove = _cache_max_size // 10 least
\* recently accessed, when there are more than _cache_max_size
Prune(entries) ==
    IF Len(entries) > cache_max_size
    THEN SubSeq(entries, (cache_max_size \div 10) + 1, Len(entries))
    ELSE entries

\* the entries without the one of the fingerprint
Without(entries, fingerprint) ==
    SelectSeq(entries, LAMBDA e : e.fingerprint # fingerprint)

\* cache_query_result: the entry is stored with the time of now as
\* last_accessed, then the cache is pruned
cache_query_result(entries, query, token_limit) ==
    Prune(Append(Without(entries, get_query_fingerprint(query)),
                 [fingerprint |-> get_query_fingerprint(query),
                  token_limit |-> token_limit,
                  example_query |-> query]))

\* check_recent_cache: the entry of the query's fingerprint, if any
Found(entries, query) ==
    {i \in DOMAIN entries :
        entries[i].fingerprint = get_query_fingerprint(query)}

\* check_recent_cache on a hit: last_accessed becomes the time of now
Touch(entries, i) == Append(Without(entries, entries[i].fingerprint), entries[i])

\* determine_search_token_limit for a query no pattern matches, the LLM
\* answering gemini if it is asked
Determine(query, gemini) ==
    LET found == Found(recent_query_cache, query)
    IN  IF found # {}
        THEN LET i == CHOOSE j \in found : TRUE
             IN  /\ recent_query_cache' = Touch(recent_query_cache, i)
                 /\ lastReturn' = [query |-> query,
                                   tier |-> recent_query_cache[i].token_limit,
                                   llm |-> FALSE, stored |-> FALSE]
        ELSE IF gemini \in {100, 150, 250}
        THEN /\ recent_query_cache' =
                    cache_query_result(recent_query_cache, query, gemini)
             /\ lastReturn' = [query |-> query, tier |-> gemini,
                               llm |-> TRUE, stored |-> TRUE]
        ELSE /\ UNCHANGED recent_query_cache
             /\ lastReturn' = [query |-> query, tier |-> 150,
                               llm |-> TRUE, stored |-> FALSE]

\* a query of the repeated topic
AskRepeated ==
    /\ \E n \in Numbers, gemini \in LLMTiers :
          /\ Determine([topic |-> Repeated, n |-> n], gemini)
          /\ resolved' = IF lastReturn'.stored THEN gemini ELSE resolved
    /\ UNCHANGED fresh
    /\ UNCHANGED besideSearch

\* a query of a topic not asked before
AskFresh ==
    /\ fresh < MaxFresh
    /\ fresh' = fresh + 1
    /\ \E gemini \in {150} :
          Determine([topic |-> fresh + 1, n |-> 1], gemini)
    /\ UNCHANGED resolved
    /\ UNCHANGED besideSearch

\* check_pattern_cache matches and its tier is returned
AskPatterned ==
    /\ lastReturn' = [query |-> [topic |-> Patterned, n |-> 1],
                      tier |-> PatternTier, llm |-> FALSE, stored |-> FALSE]
    /\ UNCHANGED <<recent_query_cache, fresh, resolved>>
    /\ UNCHANGED besideSearch

NextSearch ==
    \/ AskRepeated
    \/ AskFresh
    \/ AskPatterned

\* ----------------------------------------------------------- reminder polls
\* the variables the reminder polls leave alone
besideReminder ==
    <<clock, advances, db, nextId, running, pc, due, idx, result, wake,
      mainpc, request, cli, lifecycle, pollerVars, servoVars, cameraVars,
      motionVars, turnVars, agentVars, shutdownVars, followupVars, searchVars,
      askVars>>

\* the texts are sequences of characters
\* agent.py:190
NotConnectedReply ==
    <<"[", "T", "i", "c", "k", "T", "i", "c", "k", "A", "g", "e", "n", "t",
      "]", " ", "N", "o", "t", " ", "c", "o", "n", "n", "e", "c", "t", "e",
      "d", ".", " ", "C", "a", "l", "l", " ", "s", "t", "a", "r", "t", "(",
      ")", " ", "f", "i", "r", "s", "t", ".">>

\* agent.py:198
TimedOutReply ==
    <<"[", "T", "i", "c", "k", "T", "i", "c", "k", "A", "g", "e", "n", "t",
      "]", " ", "R", "e", "q", "u", "e", "s", "t", " ", "t", "i", "m", "e",
      "d", " ", "o", "u", "t", ".">>

\* agent.py:200, before the text of the exception
ErrorPrefix ==
    <<"[", "T", "i", "c", "k", "T", "i", "c", "k", "A", "g", "e", "n", "t",
      "]", " ", "E", "r", "r", "o", "r", ":", " ">>

\* str(e) of the exceptions a request may raise: no text (the TimeoutError
\* of concurrent.futures before Python 3.11), and the text of an
\* AttributeError on None
ExceptionTexts == {<<>>,
        <<"'", "N", "o", "n", "e", "T", "y", "p", "e", "'", " ", "o", "b",
          "j", "e", "c", "t", " ", "h", "a", "s", " ", "n", "o", " ", "a",
          "t", "t", "r", "i", "b", "u", "t", "e", " ", "'", "c", "a", "l",
          "l", "_", "t", "o", "o", "l", "'">>}

\* the final replies of the sub-agent: the empty text, the answers that say
\* that nothing is due, and a list of tasks
NoTasksReply ==
    <<"N", "o", " ", "t", "a", "s", "k", "s", " ", "d", "u", "e", ".">>

NoneReply ==
    <<"N", "o", "n", "e">>

AllClearReply ==
    <<"A", "l", "l", " ", "c", "l", "e", "a", "r">>

TasksReply ==
    <<"B", "u", "y", " ", "m", "i", "l", "k", ",", " ", "d", "u", "e", " ",
      "t", "o", "d", "a", "y">>

AgentReplies == {<<>>, NoTasksReply, NoneReply, AllClearReply, TasksReply}

\* str.lower() on the letters
UpperToLower ==
    ("A" :> "a") @@ ("B" :> "b") @@ ("C" :> "c") @@ ("D" :> "d") @@ ("E"
    :> "e") @@ ("F" :> "f") @@ ("G" :> "g") @@ ("H" :> "h") @@ ("I" :>
    "i") @@ ("J" :> "j") @@ ("K" :> "k") @@ ("L" :> "l") @@ ("M" :> "m")
    @@ ("N" :> "n") @@ ("O" :> "o") @@ ("P" :> "p") @@ ("Q" :> "q") @@
    ("R" :> "r") @@ ("S" :> "s") @@ ("T" :> "t") @@ ("U" :> "u") @@ ("V"
    :> "v") @@ ("W" :> "w") @@ ("X" :> "x") @@ ("Y" :> "y") @@ ("Z" :>
    "z")

lower(text) ==
    [i \in DOMAIN text |->
        IF text[i] \in DOMAIN UpperToLower THEN UpperToLower[text[i]] ELSE text[i]]

\* the phrases of _check_and_remind
NothingDuePhrases ==
    {<<"n", "o", " ", "t", "a", "s", "k", "s", " ", "d", "u", "e">>,
     <<"n", "o", " ", "t", "a", "s", "k", "s">>,
     <<"n", "o", " ", "o", "v", "e", "r", "d", "u", "e">>,
     <<"n", "o", "t", "h", "i", "n", "g", " ", "d", "u", "e">>,
     <<"n", "o", "n", "e">>,
     <<"a", "l", "l", " ", "c", "l", "e", "a", "r">>}

\* phrase in text
Contains(phrase, text) ==
    \E i \in 0..(Len(text) - Len(phrase)) :
        SubSeq(text, i + 1, i + Len(phrase)) = phrase

\* the test of the phrases without lower()
said_nothing_due_CaseSensitive(result_text) ==
    \E phrase \in NothingDuePhrases : Contains(phrase, result_text)

\* any(phrase in result_lower for phrase in [...])
said_nothing_due(result_text) ==
    \E phrase \in NothingDuePhrases : Contains(phrase, lower(result_text))

\* result.strip()[:200]
reminded_key(result_text) == Prefix(strip(result_text), 200)

\* threads one TickTickPoller may have created
MaxPollers == 2

\* how future.result(timeout) may end
AskOutcomes == {"answered", "timed_out", "raised"}

\* TickTickAgent.ask: [kind, text] of what it returns
agent_ask(connected, outcome) ==
    IF ~connected
    THEN {[kind |-> "not_connected", text |-> NotConnectedReply]}
    ELSE CASE outcome = "answered" ->
                {[kind |-> "answered", text |-> a] : a \in AgentReplies}
           [] outcome = "timed_out" ->
                {[kind |-> "timed_out", text |-> TimedOutReply],
                 [kind |-> "timed_out", text |-> ErrorPrefix]}
           [] outcome = "raised" ->
                {[kind |-> "error", text |-> ErrorPrefix \o e] : e \in ExceptionTexts}

\* a thread start() has just created: it is in time.sleep(30)
NewPoller == [at |-> "delay", kind |-> "none", text |-> <<>>, did |-> {}]

\* the poll of the thread ends and its loop of one-second sleeps begins
PollEnds(t, kind, text) ==
    poll_threads' = [poll_threads EXCEPT ![t].at = "waiting", ![t].kind = kind,
                                         ![t].text = text]

\* TickTickPoller.start()
PollStartCall ==
    /\ poll_caller = "idle"
    /\ IF poller_running
       THEN UNCHANGED <<poller_running, poll_threads>>
       ELSE /\ Len(poll_threads) < MaxPollers
            /\ poller_running' = TRUE
            /\ poll_threads' = Append(poll_threads, NewPoller)
    /\ UNCHANGED <<poll_caller, agent_running, reminded_cache>>
    /\ UNCHANGED besideReminder

\* TickTickPoller.stop(): _running is cleared and the join begins
PollStopCall ==
    /\ poll_caller = "idle"
    /\ poller_running' = FALSE
    /\ poll_caller' = "joining"
    /\ UNCHANGED <<poll_threads, agent_running, reminded_cache>>
    /\ UNCHANGED besideReminder

\* the join(timeout=5) returns: the thread has ended, or five seconds have
\* passed; a thread in its one-second sleeps ends within the five seconds
PollStopReturn ==
    /\ poll_caller = "joining"
    /\ \/ poll_threads = <<>>
       \/ /\ poll_threads # <<>>
          /\ poll_threads[Len(poll_threads)].at # "waiting"
    /\ poll_caller' = "idle"
    /\ UNCHANGED <<poller_running, poll_threads, agent_running, reminded_cache>>
    /\ UNCHANGED besideReminder

\* TickTickAgent.start() has connected, or stop() or a lost connection
AgentSwitch ==
    /\ agent_running' = ~agent_running
    /\ UNCHANGED <<poller_running, poll_threads, poll_caller, reminded_cache>>
    /\ UNCHANGED besideReminder

\* time.sleep(30) is over, or the interval of one-second sleeps: the test
\* of `while self._running', or the return from the sleeps
SleepEnds(t) ==
    /\ poll_threads[t].at \in {"delay", "waiting"}
    /\ poll_threads' =
          [poll_threads EXCEPT ![t].at = IF poller_running THEN "check" ELSE "ended"]
    /\ UNCHANGED <<poller_running, poll_caller, agent_running, reminded_cache>>
    /\ UNCHANGED besideReminder

\* _check_and_remind begins: agent.is_running() is tested and ask is called
CheckBegins(t) ==
    /\ poll_threads[t].at = "check"
    /\ IF ~agent_running
       THEN poll_threads' = [poll_threads EXCEPT ![t] =
                [at |-> "waiting", kind |-> "not_running", text |-> <<>>, did |-> {}]]
       ELSE poll_threads' = [poll_threads EXCEPT ![t] =
                [at |-> "asking", kind |-> "none", text |-> <<>>, did |-> {}]]
    /\ UNCHANGED <<poller_running, poll_caller, agent_running, reminded_cache>>
    /\ UNCHANGED besideReminder

\* ask returns; the tests of the result up to the one of the cache
AskReturns(t) ==
    /\ poll_threads[t].at = "asking"
    /\ \E outcome \in AskOutcomes :
          \E r \in agent_ask(agent_running, outcome) :
             IF \/ r.text = <<>>
                \/ said_nothing_due(r.text)
                \/ reminded_key(r.text) \in reminded_cache
             THEN PollEnds(t, r.kind, r.text)
             ELSE poll_threads' = [poll_threads EXCEPT ![t].at = "adding",
                                      ![t].kind = r.kind, ![t].text = r.text]
    /\ UNCHANGED <<poller_running, poll_caller, agent_running, reminded_cache>>
    /\ UNCHANGED besideReminder

\* self._reminded_cache.add(result_key)
CacheAdd(t) ==
    /\ poll_threads[t].at = "adding"
    /\ reminded_cache' = reminded_cache \cup {reminded_key(poll_threads[t].text)}
    /\ poll_threads' = [poll_threads EXCEPT ![t].at = "gesture",
                                            ![t].did = @ \cup {"added"}]
    /\ UNCHANGED <<poller_running, poll_caller, agent_running>>
    /\ UNCHANGED besideReminder

\* self._attention_gesture()
AttentionGesture(t) ==
    /\ poll_threads[t].at = "gesture"
    /\ poll_threads' = [poll_threads EXCEPT ![t].at = "speaking",
                                            ![t].did = @ \cup {"gesture"}]
    /\ UNCHANGED <<poller_running, poll_caller, agent_running, reminded_cache>>
    /\ UNCHANGED besideReminder

\* self.voice_fn(reminder)
SpeakReminder(t) ==
    /\ poll_threads[t].at = "speaking"
    /\ poll_threads' = [poll_threads EXCEPT ![t].at = "waiting",
                                            ![t].did = @ \cup {"spoken"}]
    /\ UNCHANGED <<poller_running, poll_caller, agent_running, reminded_cache>>
    /\ UNCHANGED besideReminder

NextReminder ==
    \/ PollStartCall
    \/ PollStopCall
    \/ PollStopReturn
    \/ AgentSwitch
    \/ \E t \in 1..MaxPollers : t \in DOMAIN poll_threads /\ SleepEnds(t)
    \/ \E t \in 1..MaxPollers : t \in DOMAIN poll_threads /\ CheckBegins(t)
    \/ \E t \in 1..MaxPollers : t \in DOMAIN poll_threads /\ AskReturns(t)
    \/ \E t \in 1..MaxPollers : t \in DOMAIN poll_threads /\ CacheAdd(t)
    \/ \E t \in 1..MaxPollers : t \in DOMAIN poll_threads /\ AttentionGesture(t)
    \/ \E t \in 1..MaxPollers : t \in DOMAIN poll_threads /\ SpeakReminder(t)

\* ---------------------------------------------------------------------- ask
\* the variables beside those of a request and of a call of ask
besideAsk ==
    <<clock, advances, db, nextId, running, pc, due, idx, result, wake,
      mainpc, request, cli, lifecycle, pollerVars, servoVars, cameraVars,
      motionVars, turnVars, shutdownVars, followupVars, searchVars,
      reminderVars>>

\* the session is connected or not when ask is called
Connected == BOOLEAN

\* future.result raises concurrent.futures.TimeoutError; it is the builtin
\* TimeoutError from Python 3.11 on, and before that `except TimeoutError`
\* lets it pass to `except Exception`
TimeoutIsBuiltin == BOOLEAN

\* ask while the agent is not running, has no loop or no session: the text
\* "Not connected" is returned and no request is scheduled
AskNotConnected ==
    /\ ask_at \in {"idle", "returned"}
    /\ rpos \in {"idle", "returned", "raised"}
    /\ \E connected \in Connected : ~connected
    /\ ask_at' = "returned"
    /\ ask_result' = "not connected"
    /\ UNCHANGED agentVars
    /\ UNCHANGED besideAsk

\* ask schedules _process_request on the loop of the agent with
\* run_coroutine_threadsafe and waits for the future
AskCall ==
    /\ ask_at \in {"idle", "returned"}
    /\ rpos \in {"idle", "returned", "raised"}
    /\ \E connected \in Connected : connected
    /\ conversation' = <<"system", "ready", "instruction">>
    /\ replies' = <<>>
    /\ llm_calls' = 0
    /\ tool_execs' = 0
    /\ returned' = NoReply
    /\ rpos' = "round"
    /\ ask_at' = "waiting"
    /\ ask_result' = "none"
    /\ UNCHANGED besideAsk

\* future.result(timeout=timeout) gives the value of the request, or raises
\* what the request raised and ask returns "Error: ..."
AskResult ==
    /\ ask_at = "waiting"
    /\ rpos \in {"returned", "raised"}
    /\ ask_at' = "returned"
    /\ ask_result' = IF rpos = "returned" THEN "reply" ELSE "error"
    /\ UNCHANGED agentVars
    /\ UNCHANGED besideAsk

\* the request is not over after `timeout` seconds: future.result raises
\* and ask returns the timed-out text; the future is not cancelled and
\* nothing is said to the request, which stays on the loop
AskTimesOut ==
    /\ ask_at = "waiting"
    /\ rpos \in {"round", "llm", "tool"}
    /\ ask_at' = "returned"
    /\ \E builtin \in TimeoutIsBuiltin :
          ask_result' = IF builtin THEN "timed out" ELSE "error"
    /\ UNCHANGED agentVars
    /\ UNCHANGED besideAsk

NextAsk ==
    \/ AskNotConnected
    \/ AskCall
    \/ CallModel
    \/ ModelReplies
    \/ ModelRaises
    \/ ToolReturns
    \/ MaxRounds
    \/ AskResult
    \/ AskTimesOut

\* ---------------------------------------------------------- specification
Init ==
    /\ clock = StartSecond * Sub
    /\ advances = 0
    /\ db = <<>>
    /\ nextId = 1
    /\ running = FALSE
    /\ pc = "idle"
    /\ due = <<>>
    /\ idx = 1
    /\ result = NoResult
    /\ wake = 0
    /\ mainpc = "init"
    /\ request = NoRequest
    /\ cli = "menu"
    /\ loops = <<>>
    /\ released = FALSE
    /\ caller = "idle"
    /\ joinBy = 0
    /\ ppc = "idle"
    /\ answer = <<>>
    /\ cache = {}
    /\ spoken = [k \in Fingerprints |-> 0]
    /\ arduino = "unopened"
    /\ elevation_servo_pos = 0
    /\ translation_servo_pos = 0
    /\ rotation_stepper_deg = 0
    /\ written = NoCommand
    /\ emitted = [c \in Channels |-> NoValue]
    /\ call = NoCall
    /\ mpos = "listening"
    /\ iterations = 0
    /\ epos = "sleep"
    /\ todo = 0
    /\ reading = {}
    /\ left = [p \in Producers |-> 0]
    /\ runs = [p \in Producers |-> 0]
    /\ link = <<>>
    /\ tpos = "listening"
    /\ did = {}
    /\ asked = "none"
    /\ task_result = NoContext
    /\ task_context = NoContext
    /\ conversation_history = <<>>
    /\ rpos = "idle"
    /\ conversation = <<>>
    /\ replies = <<>>
    /\ llm_calls = 0
    /\ tool_execs = 0
    /\ returned = NoReply
    /\ mainAt = "boot"
    /\ flags = [w \in Workers |-> FALSE]
    /\ threads = [w \in Workers |-> "none"]
    /\ plan = <<>>
    /\ via = "none"
    /\ timedOut = FALSE
    /\ lpos = "listening"
    /\ turnNo = 0
    /\ pending_followup = None
    /\ followup_timer = "none"
    /\ saying = None
    /\ spokenLate = FALSE
    /\ recent_query_cache = <<>>
    /\ fresh = 0
    /\ resolved = NoTier
    /\ lastReturn = [query |-> NoQuery, tier |-> NoTier, llm |-> FALSE, stored |-> FALSE]
    /\ poller_running = FALSE
    /\ poll_threads = <<>>
    /\ poll_caller = "idle"
    /\ agent_running = FALSE
    /\ reminded_cache = {}
    /\ ask_at = "idle"
    /\ ask_result = "none"

\* the store, the engine and the requests that reach the store
Next ==
    \/ Start
    \/ Stop
    \/ Tick
    \/ LoopExit
    \/ Execute
    \/ Handle
    \/ Advance
    \/ ScheduleWakeUp
    \/ ScheduleReminder
    \/ DeleteAction

Spec == Init /\ [][Next]_vars

\* the requests: what the dialogue program and the CLI put into the store
\* (the scheduler thread is started and takes no step)
NextRequests ==
    \/ Start
    \/ Advance
    \/ ScheduleWakeUp
    \/ ScheduleReminder
    \/ AskRecurringTask
    \/ ScheduleRecurringTask
    \/ RestartCli
    \/ DeleteAction
    \/ Hear
    \/ DialogueSchedule

SpecRequests == Init /\ [][NextRequests]_vars

\* ------------------------------------------------------------- properties
\* the rows that exist before and after a step
Kept == DOMAIN db \cap DOMAIN db'

\* the rows a step inserts
Inserted == DOMAIN db' \ DOMAIN db

\* a step in which the engine starts an oracle invocation (for due'[idx'])
Invokes == pc' = "oracle" /\ (pc # "oracle" \/ idx' # idx)

\* a step in which the engine handles the verdict for a row that exists
Handles(id) == pc = "result" /\ due[idx].id = id /\ id \in Kept

Terminal == {"completed", "expired"}

AllowedChanges ==
    {<<"scheduled", "active">>, <<"active", "completed">>,
     <<"active", "scheduled">>, <<"scheduled", "expired">>,
     <<"active", "expired">>}

\* C1: every change of an action's stored status is one of
\* scheduled->active, active->completed, active->scheduled,
\* scheduled->expired, active->expired; a completed or expired row never
\* changes again, and the oracle is invoked only for an action that is
\* stored as active (so never for a completed or expired one).
C1_StatusTransitions ==
    [][/\ \A id \in Kept :
             /\ db'[id].status # db[id].status
                   => <<db[id].status, db'[id].status>> \in AllowedChanges
             /\ db[id].status \in Terminal => db'[id] = db[id]
       /\ Invokes /\ due'[idx'].id \in DOMAIN db'
             => db'[due'[idx'].id].status = "active"]_vars

\* C1 witness: one action has been retried and has expired, another has
\* completed
C1_Witness ==
    \E i, j \in DOMAIN db :
        /\ db[i].status = "expired"
        /\ db[i].attempt_count > 0
        /\ db[j].status = "completed"

\* C2: when the verdict asks for a retry, the action has a retry_until and
\* now + retry_delay is strictly after it, the engine marks the action
\* expired instead of rescheduling it.
C2_ExpiresInsteadOfRescheduling ==
    [][\A id \in Kept :
          /\ Handles(id)
          /\ ~result.completed /\ result.should_retry /\ ~result.overflow
          /\ due[idx].retry_until # NoTime
          /\ plus_seconds(clock, result.retry_delay) > strptime(due[idx].retry_until)
          => db'[id].status = "expired"]_vars

\* C3: once the time is past an action's retry_until, the engine invokes
\* the oracle for it no more: no oracle invocation starts for an action
\* whose retry_until lies before the current time.
C3_NoOracleAfterDeadline ==
    [][Invokes =>
          ~(/\ due'[idx'].retry_until # NoTime
            /\ clock' > strptime(due'[idx'].retry_until))]_vars

\* C4 as stated: attempt_count never decreases, and handling a verdict
\* leaves it unchanged when the action ends completed or expired and adds
\* exactly one in every other case.
C4_OnePerNonFinalizingInvocation ==
    [][\A id \in Kept :
          /\ db'[id].attempt_count >= db[id].attempt_count
          /\ Handles(id) =>
                db'[id].attempt_count =
                    IF db'[id].status \in Terminal
                    THEN db[id].attempt_count
                    ELSE db[id].attempt_count + 1]_vars

\* C4: attempt_count never decreases; handling a verdict adds exactly one
\* when the engine reschedules the action and leaves it unchanged when the
\* action ends completed or expired or when the handling raises (the action
\* stays active); no other step changes it.
C4_OnePerReschedule ==
    [][\A id \in Kept :
          db'[id].attempt_count =
              IF Handles(id) /\ db'[id].status = "scheduled"
              THEN db[id].attempt_count + 1
              ELSE db[id].attempt_count]_vars

\* C4 witness: an action that was rescheduled twice has completed with
\* attempt_count 2
C4_Witness ==
    \E id \in DOMAIN db :
        db[id].status = "completed" /\ db[id].attempt_count = 2

\* C9: get_due_actions(now) returns exactly the stored rows whose status
\* is scheduled or active and whose trigger_time is not after now, each
\* once and as stored, in ascending order of trigger_time.
C9_DueActions ==
    LET Expected == {id \in DOMAIN db :
                        /\ db[id].status \in {"scheduled", "active"}
                        /\ strptime(db[id].trigger_time) <= clock}
        Results == get_due_actions(db, strftime(clock))
    IN  /\ Results # {}
        /\ \A d \in Results :
              /\ {d[k].id : k \in DOMAIN d} = Expected
              /\ DOMAIN d = 1..Cardinality(Expected)
              /\ \A k \in DOMAIN d : d[k] = [id |-> d[k].id] @@ db[d[k].id]
              /\ \A k \in DOMAIN d :
                    k + 1 \in DOMAIN d => d[k].trigger_time <= d[k + 1].trigger_time

\* C9 witness: a tick got two due actions with different trigger times
\* while the store also holds a row that is not due
C9_Witness ==
    /\ pc = "oracle"
    /\ idx = 1
    /\ Len(due) = 2
    /\ due[1].trigger_time < due[2].trigger_time
    /\ \E id \in DOMAIN db : db[id].status = "active"

\* C30: within one tick the engine processes the due actions one after
\* another in ascending trigger_time order: an oracle invocation starts
\* either as the first of a tick or when the verdict for the action before
\* it in due_actions has been handled and its store updates are made; no
\* verdict is outstanding then, and the action before it is not triggered
\* later.
C30_OneAfterAnother ==
    [][Invokes =>
          /\ result' = NoResult
          /\ \/ pc = "sleep" /\ idx' = 1
             \/ /\ pc = "result"
                /\ due' = due
                /\ idx' = idx + 1
                /\ due[idx].trigger_time <= due[idx + 1].trigger_time
                /\ due[idx].id # due[idx + 1].id
                /\ due[idx].id \in DOMAIN db' =>
                      db'[due[idx].id].status \in {"scheduled", "completed", "expired"}
          /\ due'[idx'].id \in DOMAIN db' => db'[due'[idx'].id].status = "active"]_vars

\* C30 witness: the oracle is invoked for the second due action of a tick,
\* which is triggered later than the first, whose retry has been stored
C30_Witness ==
    /\ pc = "oracle"
    /\ idx = 2
    /\ Len(due) = 2
    /\ due[1].trigger_time < due[2].trigger_time
    /\ due[1].id \in DOMAIN db
    /\ db[due[1].id].status = "scheduled"
    /\ db[due[1].id].attempt_count = due[1].attempt_count + 1

\* a step in which schedule_recurring_task has made its call of
\* create_scheduled_action
RecurringServed == cli = "recurring" /\ cli' # "recurring"

\* a step in which the dialogue program has handled a scheduling request
DialogueServed == mainpc = "scheduling" /\ mainpc' = "listening"

\* C5: a recurring action that completes is followed by exactly one new
\* action of its series; the series starts with the action a request for a
\* recurring task stores: that request inserts one action, scheduled, with
\* trigger_time = now + interval cut to the minute.
C5_SeriesStored ==
    [][RecurringServed =>
          /\ Cardinality(Inserted) = 1
          /\ \A id \in Inserted :
                /\ db'[id].status = "scheduled"
                /\ \E m \in Intervals :
                      db'[id].trigger_time =
                          strftime(replace_s(plus_seconds(clock, m * SecondsPerMinute)))]_vars

C10_TriggerNotPast ==
    [][/\ \A id \in Inserted : strptime(db'[id].trigger_time) >= clock
       /\ DialogueServed =>
             \E id \in Inserted :
                 /\ strptime(db'[id].trigger_time) >= clock
                 /\ db'[id].trigger_time \in
                        {request.trigger_time, request.trigger_time + SecondsPerDay}]_vars

\* C11: every stored action whose retry_until is set has
\* retry_until >= trigger_time, also after the engine has rescheduled it.
C11_RetryUntilNotBeforeTrigger ==
    \A id \in DOMAIN db :
        db[id].retry_until # NoTime => db[id].retry_until >= db[id].trigger_time

\* a step in which the handling of the verdict for the row id raises
Raises(id) ==
    /\ Handles(id)
    /\ HandleVerdict(due[idx], result, db, nextId, clock).raised

\* C13: when an exception is raised while the engine processes a due
\* action, the action is stored as active with its attempt_count unchanged
\* after the tick, so that the next tick finds it due again.
C13_ExceptionLeavesActive ==
    [][\A id \in Kept :
          Raises(id) =>
              /\ db'[id].status = "active"
              /\ db'[id].attempt_count = db[id].attempt_count
              /\ IsDue(db'[id], strftime(clock'))]_vars

\* the verdict being handled is the one of a camera failure or of a failed
\* LLM call
FailureVerdict == result # NoResult /\ result.reason \in {"Camera failure", "Error"}

\* C32: a frame that cannot be read gives completed = false, should_retry =
\* true and a retry delay of 10 s, a failed LLM call or parsing the same
\* with 60 s; the engine then puts the action back to scheduled with
\* trigger_time = now + delay, unless its retry_until has passed, in which
\* case it marks the action expired.
C32_FailureRetries ==
    [][\A id \in DOMAIN db :
          Handles(id) /\ FailureVerdict =>
             LET delay == IF result.reason = "Camera failure" THEN 10 ELSE 60
                 passed == /\ db[id].retry_until # NoTime
                           /\ clock > strptime(db[id].retry_until)
             IN  /\ ~result.completed
                 /\ result.should_retry
                 /\ result.retry_delay = delay
                 /\ passed => db'[id].status = "expired"
                 /\ ~passed =>
                       /\ db'[id].status = "scheduled"
                       /\ db'[id].trigger_time = strftime(clock + delay * Sub)]_vars

\* C32 witness: a wake-up whose LLM call failed before its retry_until is
\* scheduled for 60 s after the attempt
C32_Witness ==
    \E id \in DOMAIN db :
        /\ db[id].status = "scheduled"
        /\ db[id].retry_until # NoTime
        /\ db[id].attempt_count = 1
        /\ db[id].last_attempt # NoTime
        /\ db[id].trigger_time = db[id].last_attempt + 60

\* C31: the oracle is never invoked for an action before its trigger_time:
\* the due list a tick reads holds only actions whose trigger_time is not
\* after the start of the tick, the list is the same for the whole tick, and
\* when the oracle is invoked for an action the store holds for it the
\* trigger_time of the list, also after a retry has moved it.
C31_NotBeforeTrigger ==
    [][/\ pc = "sleep" /\ pc' = "oracle" =>
             \A k \in DOMAIN due' : strptime(due'[k].trigger_time) <= clock
       /\ pc # "sleep" /\ pc' = "oracle" => due' = due
       /\ Invokes =>
             LET a == due'[idx']
             IN  a.id \in DOMAIN db' =>
                    /\ db'[a.id].trigger_time = a.trigger_time
                    /\ strptime(db'[a.id].trigger_time) <= clock']_vars

\* C31 witness: the oracle is invoked for an action that a retry has moved
\* to the trigger_time it has now
C31_Witness ==
    /\ pc = "oracle"
    /\ due[idx].id \in DOMAIN db
    /\ db[due[idx].id].attempt_count = 1
    /\ db[due[idx].id].last_attempt # NoTime
    /\ db[due[idx].id].trigger_time > due[idx].last_attempt
    /\ due[idx].attempt_count = 1

\* the verdict being handled says neither completed nor should_retry
NeitherVerdict == result # NoResult /\ ~result.completed /\ ~result.should_retry

\* C33: a verdict with completed = false and should_retry = false is
\* treated as completed: the status becomes completed, attempt_count and
\* trigger_time stay as they are, and the action is never executed again (a
\* completed row stays completed and the oracle is not invoked for it).
C33_NeitherIsCompleted ==
    [][/\ \A id \in DOMAIN db :
             Handles(id) /\ NeitherVerdict =>
                /\ db'[id].status = "completed"
                /\ db'[id].attempt_count = db[id].attempt_count
                /\ db'[id].trigger_time = db[id].trigger_time
       /\ \A id \in Kept :
             db[id].status = "completed" => db'[id].status = "completed"
       /\ Invokes /\ due'[idx'].id \in DOMAIN db =>
             db[due'[idx'].id].status # "completed"]_vars

\* C33 witness: the first due action of the tick got such a verdict and is
\* completed (a verdict that says completed ends the tick), the second one
\* has just got one too
C33_Witness ==
    /\ pc = "result"
    /\ NeitherVerdict
    /\ idx = 2
    /\ due[1].id \in DOMAIN db
    /\ db[due[1].id].status = "completed"
    /\ db[due[1].id].attempt_count = due[1].attempt_count
    /\ db[due[1].id].trigger_time = due[1].trigger_time

\* the ids, statuses, counts and times the two updates are tried with; the
\* id after the last one is in no table
UpdateIds == 1..(MaxActions + 1)
UpdateStatuses == {"scheduled", "active", "completed", "expired"}
UpdateCounts == 0..2
UpdateTimes == {NoTime, strftime(clock), strftime(clock) + 60}

\* table `after` is table `before` with at most the columns `columns` of row
\* `id` changed: the same rows, every other row as it was, every other
\* column of the row as it was, and nothing at all when there is no row `id`
OnlyChanged(before, after, id, columns) ==
    /\ DOMAIN after = DOMAIN before
    /\ \A j \in DOMAIN before \ {id} : after[j] = before[j]
    /\ id \in DOMAIN before =>
          /\ DOMAIN after[id] = DOMAIN before[id]
          /\ \A column \in DOMAIN before[id] \ columns :
                after[id][column] = before[id][column]
    /\ id \notin DOMAIN before => after = before

\* C40: update_action_status changes only status, last_attempt and (when
\* supplied) attempt_count of the addressed row, update_trigger_time changes
\* only trigger_time of the addressed row; no other column and no other row
\* is modified, and an id that does not exist changes nothing.
C40_UpdatesTouchOnlyTheirColumns ==
    \A id \in UpdateIds :
        /\ \A status \in UpdateStatuses :
              /\ OnlyChanged(db, update_status(db, id, status, clock), id,
                             {"status", "last_attempt"})
              /\ \A attempt_count \in UpdateCounts :
                    OnlyChanged(db,
                                update_status_count(db, id, status,
                                                    attempt_count, clock),
                                id,
                                {"status", "last_attempt", "attempt_count"})
        /\ \A new_trigger_time \in UpdateTimes :
              OnlyChanged(db, update_trigger_time(db, id, new_trigger_time),
                          id, {"trigger_time"})

\* C40 witness: of two rows the engine has written the status, the count,
\* last_attempt and a new trigger_time of one, and the other one is as it
\* was inserted
C40_Witness ==
    \E id, other \in DOMAIN db :
        /\ id # other
        /\ db[id].attempt_count = 1
        /\ db[id].last_attempt = strftime(clock)
        /\ db[id].status = "scheduled"
        /\ db[id].trigger_time > db[id].last_attempt
        /\ db[other].attempt_count = 0
        /\ db[other].last_attempt = NoTime
        /\ db[other].status = "scheduled"

\* ---------------------------------------------------------------- liveness
\* time.sleep(check_interval) returns.  In SpecTicking the time that passes
\* during a sleep is not added to the clock: a row that is due stays due as
\* time goes on, and with the clock at rest the engine can tick for ever
\* within finitely many states.
SleepOver ==
    /\ pc = "sleep"
    /\ running
    /\ clock < wake
    /\ wake' = clock
    /\ UNCHANGED <<clock, advances, db, nextId, running, pc, due, idx, result,
                   mainpc, request, cli>>
    /\ UNCHANGED ext

NextTicking ==
    \/ Start
    \/ ScheduleWakeUp
    \/ ScheduleReminder
    \/ Advance
    \/ Tick
    \/ Execute
    \/ Handle
    \/ SleepOver

\* the engine is started, keeps ticking, and every oracle call returns
SpecTicking ==
    /\ Init
    /\ [][NextTicking]_vars
    /\ WF_vars(Start)
    /\ WF_vars(Tick)
    /\ WF_vars(Execute)
    /\ WF_vars(Handle)
    /\ WF_vars(SleepOver)

\* the oracle is being invoked for the row id, or has just returned
Executing(id) == pc \in {"oracle", "result"} /\ due[idx].id = id

\* C12: as long as the engine keeps ticking, every action whose
\* trigger_time has passed is eventually executed or marked expired, also
\* when the processing of another due action raises on every tick.
C12_DueEventuallyExecuted ==
    \A id \in Ids :
        (id \in DOMAIN db /\ IsDue(db[id], strftime(clock)))
            ~> (Executing(id) \/ (id \in DOMAIN db /\ db[id].status = "expired"))

\* -------------------------------------------------------------- lifecycle
\* threads one ActionScheduler may have created
MaxLoops == 2

\* stop(): self.scheduler_thread.join(timeout=5)
JoinTimeout == 5

\* the variables start(), stop() and the threads leave alone
besideLifecycle ==
    <<pc, due, idx, result, wake, mainpc, request, cli, pollerVars,
      servoVars, cameraVars, motionVars, turnVars, agentVars, shutdownVars,
      followupVars, searchVars, reminderVars, askVars>>

\* a thread that start() has just created: it is at `while self.running'
NewLoop == [pc |-> "sleep", due |-> <<>>, idx |-> 1, frame |-> FALSE]

\* start(): returns at once when running is set, else sets it and creates
\* a thread, which becomes self.scheduler_thread
StartCall ==
    /\ caller = "idle"
    /\ IF running
       THEN UNCHANGED <<running, loops>>
       ELSE /\ Len(loops) < MaxLoops
            /\ running' = TRUE
            /\ loops' = Append(loops, NewLoop)
    /\ UNCHANGED <<clock, advances, db, nextId, released, caller, joinBy>>
    /\ UNCHANGED besideLifecycle

\* stop(): clears running and waits for self.scheduler_thread, for at most
\* JoinTimeout seconds
StopCall ==
    /\ caller = "idle"
    /\ running' = FALSE
    /\ caller' = "joining"
    /\ joinBy' = plus_seconds(clock, JoinTimeout)
    /\ UNCHANGED <<clock, advances, db, nextId, loops, released>>
    /\ UNCHANGED besideLifecycle

\* stop(): the join returns, because the thread has ended or because the
\* timeout has passed, and executor.cleanup() releases the camera
StopReturn ==
    /\ caller = "joining"
    /\ \/ loops = <<>>
       \/ loops # <<>> /\ loops[Len(loops)].pc = "exited"
       \/ clock >= joinBy
    /\ released' = TRUE
    /\ caller' = "idle"
    /\ UNCHANGED <<clock, advances, db, nextId, running, loops, joinBy>>
    /\ UNCHANGED besideLifecycle

\* the thread t enters execute_scheduled_action for the action a: cam.read()
\* gives a frame unless the camera has been released
Invoke(t, d, i) ==
    [pc |-> "oracle", due |-> d, idx |-> i, frame |-> ~released]

\* thread t: `while self.running' holds; one pass up to the first oracle call
LoopTick(t) ==
    /\ loops[t].pc = "sleep"
    /\ running
    /\ \E d \in get_due_actions(db, strftime(clock)) :
          IF Len(d) = 0
          THEN UNCHANGED <<db, loops>>
          ELSE /\ db' = MarkActive(db, d[1], clock)
               /\ loops' = [loops EXCEPT ![t] = Invoke(t, d, 1)]
    /\ UNCHANGED <<clock, advances, nextId, running, released, caller, joinBy>>
    /\ UNCHANGED besideLifecycle

\* thread t: `while self.running' fails and the thread ends
LoopEnd(t) ==
    /\ loops[t].pc = "sleep"
    /\ ~running
    /\ loops' = [loops EXCEPT ![t].pc = "exited"]
    /\ UNCHANGED <<clock, advances, db, nextId, running, released, caller, joinBy>>
    /\ UNCHANGED besideLifecycle

\* the verdicts execute_scheduled_action may return to thread t
LoopVerdicts(t) == IF loops[t].frame THEN Verdicts \ {CameraFailure} ELSE {CameraFailure}

\* thread t: execute_scheduled_action returns and the verdict is handled;
\* then the next due action is marked active or the pass ends
LoopHandle(t) ==
    /\ loops[t].pc = "oracle"
    /\ \E v \in LoopVerdicts(t) :
          LET l == loops[t]
              out == HandleVerdict(l.due[l.idx], v, db, nextId, clock)
          IN  /\ nextId' = out.nextId
              /\ IF out.raised \/ l.idx = Len(l.due)
                 THEN /\ db' = out.table
                      /\ loops' = [loops EXCEPT ![t] = NewLoop]
                 ELSE /\ db' = MarkActive(out.table, l.due[l.idx + 1], clock)
                      /\ loops' = [loops EXCEPT ![t] = Invoke(t, l.due, l.idx + 1)]
    /\ UNCHANGED <<clock, advances, running, released, caller, joinBy>>
    /\ UNCHANGED besideLifecycle

NextLifecycle ==
    \/ StartCall
    \/ StopCall
    \/ StopReturn
    \/ \E t \in 1..MaxLoops : t \in DOMAIN loops /\ LoopTick(t)
    \/ \E t \in 1..MaxLoops : t \in DOMAIN loops /\ LoopEnd(t)
    \/ \E t \in 1..MaxLoops : t \in DOMAIN loops /\ LoopHandle(t)
    \/ ScheduleReminder
    \/ Advance

SpecLifecycle == Init /\ [][NextLifecycle]_vars

\* the threads that are inside execute_scheduled_action
InOracle == {t \in DOMAIN loops : loops[t].pc = "oracle"}

\* C14: whatever the sequence of start() and stop() calls, at most one
\* oracle invocation is in progress at any instant, and no action is being
\* processed by two engine loops at the same time.
C14_OneOracleInvocation ==
    /\ Cardinality(InOracle) <= 1
    /\ \A t, u \in InOracle :
          t # u => loops[t].due[loops[t].idx].id # loops[u].due[loops[u].idx].id

SpecPoller == Init /\ [][NextPoller]_vars

\* C15: between two clears of the reminded-set the poller speaks at most
\* one reminder for each fingerprint (the first KeyLen characters of the
\* answer without the white space around it), over any number of polls.
C15_OncePerFingerprint == \A k \in Fingerprints : spoken[k] <= 1

SpecServo == Init /\ [][NextServo]_vars

\* C16: whatever the calls of the controller, every servo command written
\* to the link has a value in 0..100 and a channel in 0..15, and the stored
\* rotation stays within [-180, +180].
C16_CommandsInRange ==
    /\ written.kind = "s" =>
          /\ written.value \in 0..100
          /\ written.channel \in 0..15
    /\ rotation_stepper_deg >= -180
    /\ rotation_stepper_deg <= 180

\* a move_up that was cut at the upper end, with the stepper at its limit
C16_Witness ==
    /\ call.op = "move_up"
    /\ written.kind = "s"
    /\ written.value = 100
    /\ rotation_stepper_deg = 180

\* C17: two consecutive values written for the same servo channel never
\* differ by more than the maximum servo change, direct move_servo included.
C17_DeltaWithinMax ==
    [][\A c \in Channels :
          emitted[c] # NoValue =>
              abs(emitted'[c] - emitted[c]) <= max_servo_change]_vars

OutOfEnvelope(degrees) ==
    \/ call'.op = "move_left" /\ rotation_stepper_deg - abs(degrees) < -180
    \/ call'.op = "move_right" /\ rotation_stepper_deg + abs(degrees) > 180

\* C18: a move_left or move_right whose rotation would leave [-180, +180]
\* writes no stepper command and leaves the rotation and both servo
\* positions unchanged.
C18_OutOfEnvelopeNoOp ==
    [][\A d \in Degrees :
          (MoveLeft(d) \/ MoveRight(d)) /\ OutOfEnvelope(d) =>
              /\ written' = NoCommand
              /\ UNCHANGED <<rotation_stepper_deg, elevation_servo_pos,
                             translation_servo_pos>>]_vars

\* move_left(120) was called at rotation -90, with the link open
C18_Witness ==
    /\ arduino = "connected"
    /\ call = [op |-> "move_left", args |-> <<120>>]
    /\ rotation_stepper_deg = -90
    /\ written = NoCommand

\* round(|d| * 1600 / 360)
ClaimedSteps(d) == (2 * abs(d) * 1600 + 360) \div (2 * 360)

\* C19: the stepper command of an accepted rotation of d degrees carries
\* round(|d| * 1600 / 360) steps (400 for move_left(90) from rotation 0).
C19_StepCount ==
    written.kind = "step" => written.steps = ClaimedSteps(call.args[1])

SpecCamera == Init /\ [][NextCamera]_vars

\* C20: the frame captures of the engine, of the dialogue loop and of the
\* face centring never overlap: at any instant at most one worker is
\* reading the camera.
C20_OneReader == Cardinality(reading) <= 1

SpecMotion == Init /\ [][NextMotion]_vars

SameSequence(a, b) == a.by = b.by /\ a.run = b.run

\* C21: motor commands reach the serial link through a single writer: the
\* commands of two motion sequences are never interleaved on the link, and
\* two sequences never execute at the same time.
C21_SingleWriter ==
    /\ \A i, k \in DOMAIN link :
          i < k /\ SameSequence(link[i], link[k]) =>
              \A j \in i..k : SameSequence(link[j], link[i])
    /\ Cardinality({p \in Producers : left[p] > 0}) <= 1

SpecTurn == Init /\ [][NextTurn]_vars

\* C22: when the sub-agent's ask does not finish within its timeout, ask
\* returns the timed-out text and the LLM call of the dialogue loop for
\* that turn carries no task context.
C22_TimeoutDropsTaskContext ==
    asked = "timed_out" =>
        /\ task_result = TimedOutText
        /\ "llm" \in did => task_context = NoContext

\* a step that ends a turn whose utterance was classified as a schedule
\* intent
ScheduleTurnEnds == tpos = "scheduling" /\ tpos' = "listening"

\* C24: a turn whose utterance is classified as a schedule intent inserts
\* exactly one action and speaks the confirmation, and runs neither the
\* task classification, the search classification nor the main LLM call.
C24_ScheduleBypasses ==
    [][ScheduleTurnEnds =>
          /\ Cardinality(Inserted) = 1
          /\ did' = {"inserted", "confirmed"}]_vars

\* C26: the conversation history always alternates user and model turns,
\* beginning with a user turn, also after turns in which the camera read
\* or the LLM call failed.
C26_HistoryAlternates ==
    \A i \in DOMAIN conversation_history :
        conversation_history[i] = IF i % 2 = 1 THEN "user" ELSE "model"

SpecAgent == Init /\ [][NextAgent]_vars

\* the request is under way
InRequest == rpos \in {"round", "llm", "tool"}

\* LLM calls started, LLM calls over and tool executions over
Work == llm_calls + Len(replies) + tool_execs

\* every tool call made so far is in the conversation with its result
ResultsAppended ==
    /\ Len(conversation) = 3 + 2 * tool_execs
    /\ \A i \in 1..tool_execs :
          /\ conversation[2 + 2 * i] = "tool call"
          /\ conversation[3 + 2 * i] \in ToolOutputs

\* the request returned its first reply that is no tool call, or the
\* max-rounds message after the fifth tool call
ReturnedAsSaid ==
    \/ /\ replies # <<>>
       /\ returned = replies[Len(replies)]
       /\ returned.json # "dict_with_tool"
       /\ \A i \in 1..(Len(replies) - 1) : replies[i].json = "dict_with_tool"
    \/ /\ returned.json = MaxRoundsText
       /\ tool_execs = 5

\* C23: every request of the sub-agent ends after at most 5 LLM calls and at
\* most 5 tool executions (each step of a request starts or ends one of
\* them, or ends the request); it returns the first reply that is not a tool call, or the
\* max-rounds message after the fifth tool call; each tool result is in the
\* conversation before the next LLM call.
C23_BoundedRounds ==
    [][/\ llm_calls' <= 5
       /\ tool_execs' <= 5
       /\ InRequest =>
             \/ Work' > Work
             \/ ~InRequest'
       /\ rpos' = "returned" => ReturnedAsSaid'
       /\ rpos' = "llm" => ResultsAppended']_vars

\* a request has returned the max-rounds message
C23_Witness ==
    /\ rpos = "returned"
    /\ returned.json = MaxRoundsText
    /\ llm_calls = 5
    /\ conversation[Len(conversation)] = "tool error"

\* the main thread goes on: a stop call returns, a join returns after 5 s
\* at the latest
SpecShutdown ==
    /\ Init
    /\ [][NextShutdown]_vars
    /\ WF_vars(StopWorker)
    /\ WF_vars(JoinReturns)
    /\ WF_vars(ProcessExit)

AllStopped ==
    /\ mainAt = "exited"
    /\ \A w \in Workers : ~flags[w] /\ threads[w] \in {"none", "exited"}

\* C25: after an exit word or a keyboard interrupt the dialogue loop ends
\* and eventually the scheduler, the poller and the sub-agent are stopped:
\* their running flags are false and their loops have ended.
C25_OrderlyShutdown == (mainAt = "stopping") ~> AllStopped

\* the shutdown after an interrupt is over, a join having timed out
C25_Witness ==
    /\ AllStopped
    /\ via = "interrupt"
    /\ timedOut
    /\ threads["poller"] = "exited"

SpecFollowup == Init /\ [][NextFollowup]_vars

\* C27: once a new user turn has begun, the follow-up prompt an earlier
\* turn scheduled is never spoken, also when the timer fires at the moment
\* of the cancel.
C27_FollowupCancelled == ~spokenLate

SpecSearch == Init /\ [][NextSearch]_vars

\* the step is a call of determine_search_token_limit for the repeated
\* topic
RepeatedAsked == AskRepeated /\ lastReturn'.query.topic = Repeated

\* queries that differ in their numbers only have the same fingerprint
SameFingerprint(p, q) == p.topic = q.topic

\* the cache holds an entry for a query of the repeated topic
RepeatedCached ==
    \E i \in DOMAIN recent_query_cache :
        SameFingerprint(recent_query_cache[i].example_query,
                        [topic |-> Repeated, n |-> 1])

\* C28 as stated: after a query's tier has been resolved once, every later
\* query with the same fingerprint returns the same tier without an LLM
\* call, for any sequence of intervening queries.
C28_SameTierNoCall ==
    [][RepeatedAsked /\ resolved # NoTier =>
          /\ lastReturn'.tier = resolved
          /\ ~lastReturn'.llm]_vars

\* C28 amended: after the LLM has resolved a query's tier and the cache has
\* stored it, every later query with the same fingerprint returns that tier
\* without an LLM call for as long as the entry is in the cache.
C28_SameTierWhileCached ==
    [][RepeatedAsked /\ RepeatedCached =>
          /\ lastReturn'.tier = resolved
          /\ ~lastReturn'.llm]_vars

\* a query has hit the entry that a query with another number stored
C28_Witness ==
    /\ lastReturn.query.topic = Repeated
    /\ ~lastReturn.llm
    /\ lastReturn.tier = 250
    /\ \E i \in DOMAIN recent_query_cache :
          /\ recent_query_cache[i].example_query.topic = Repeated
          /\ recent_query_cache[i].example_query.n # lastReturn.query.n
    /\ Len(recent_query_cache) > 90

\* the fingerprints of the entries
Fingerprints29(entries) == {entries[i].fingerprint : i \in DOMAIN entries}

\* C29: after every cache_query_result the cache holds at most 100
\* entries; when the insert makes it exceed 100, the 10 least recently
\* accessed entries are removed and the entry just inserted is kept.
C29_CacheBounded ==
    [][lastReturn'.stored =>
          LET new == get_query_fingerprint(lastReturn'.query)
              before == recent_query_cache
              after == recent_query_cache'
          IN  /\ Len(after) <= 100
              /\ new \in Fingerprints29(after)
              /\ Len(before) + 1 > 100 =>
                    Fingerprints29(after) =
                        (Fingerprints29(before) \cup {new})
                            \ {before[i].fingerprint : i \in 1..10}
              /\ Len(before) + 1 <= 100 =>
                    Fingerprints29(after) = Fingerprints29(before) \cup {new}]_vars

\* an insert has just pruned the cache
C29_Witness ==
    /\ lastReturn.stored
    /\ Len(recent_query_cache) = 91
    /\ fresh > 90

\* the engine at work while the dialogue program takes scheduling requests
NextInserting ==
    \/ Start
    \/ ScheduleReminder
    \/ Advance
    \/ Tick
    \/ Execute
    \/ Handle
    \/ Hear
    \/ DialogueSchedule

SpecInserting == Init /\ [][NextInserting]_vars

\* a tick is in progress
TickInProgress == pc \in {"oracle", "result"}

\* the ids of the due list of the tick in progress
DueListIds == {due[k].id : k \in DOMAIN due}

besideStopping ==
    <<due, idx, result, wake, request, cli, pollerVars, servoVars,
      cameraVars, motionVars, turnVars, agentVars, shutdownVars, followupVars,
      searchVars, reminderVars, askVars>>

\* scheduler.stop() of the main loop, on an exit word or a keyboard
\* interrupt: running is cleared and the join begins
StopBegins ==
    /\ mainpc = "listening"
    /\ Quiet
    /\ running' = FALSE
    /\ mainpc' = "joining"
    /\ joinBy' = plus_seconds(clock, JoinTimeout)
    /\ UNCHANGED <<clock, advances, db, nextId, pc, loops, released, caller>>
    /\ UNCHANGED besideStopping

\* the join returns, the thread having ended or the timeout having passed;
\* executor.cleanup() and the rest of stop()
JoinOver ==
    /\ mainpc = "joining"
    /\ Quiet
    /\ pc = "exited" \/ clock >= joinBy
    /\ released' = TRUE
    /\ mainpc' = "stopped"
    /\ UNCHANGED <<clock, advances, db, nextId, running, pc, loops, caller, joinBy>>
    /\ UNCHANGED besideStopping

\* the main thread reaches the end of the program: the interpreter exits
\* and the scheduler thread, a daemon thread, ends where it is
ProgramExit ==
    /\ mainpc = "stopped"
    /\ Quiet
    /\ mainpc' = "exited"
    /\ pc' = IF pc = "exited" THEN pc ELSE "killed"
    /\ UNCHANGED <<clock, advances, db, nextId, running, loops, released,
                   caller, joinBy>>
    /\ UNCHANGED besideStopping

NextStopping ==
    \/ Start
    \/ ScheduleReminder
    \/ Advance
    \/ Tick
    \/ Execute
    \/ Handle
    \/ LoopExit
    \/ StopBegins
    \/ JoinOver
    \/ ProgramExit

SpecStopping == Init /\ [][NextStopping]_vars

\* stop() has been called
StopCalled == mainpc \in {"joining", "stopped", "exited"}

\* C35: after stop() has been called (and no start() follows) the engine
\* begins no new tick, and a tick that is in progress when stop() is called
\* still processes all actions of its due list: it ends only with the
\* handling of the verdict for the last one.
C35_StopBetweenTicks ==
    [][StopCalled =>
          /\ ~(pc = "sleep" /\ pc' = "oracle")
          /\ TickInProgress /\ ~TickInProgress' =>
                /\ pc = "result"
                /\ idx = Len(due)]_vars

SpecReminder == Init /\ [][NextReminder]_vars

\* the ask of the poll of thread t has failed
AskFailed(t) == poll_threads[t].kind \in {"not_connected", "timed_out", "error"}

\* C36: a poll whose ask call fails (sub-agent not connected, request timed
\* out, request raised an error) speaks no reminder, performs no attention
\* gesture and adds nothing to the reminded-set.
C36_FailedAskIsSilent ==
    \A t \in DOMAIN poll_threads :
        AskFailed(t) =>
            /\ poll_threads[t].did = {}
            /\ poll_threads[t].at \notin {"adding", "gesture", "speaking"}

\* the poll loops that have not ended
LivePollers == {t \in DOMAIN poll_threads : poll_threads[t].at # "ended"}

\* the threads between the test of the reminded-set and its update
Updating == {t \in DOMAIN poll_threads : poll_threads[t].at = "adding"}

\* C38: for any sequence of start() and stop() calls of the poller at most
\* one poll loop is running at any instant, so two polls never test and
\* update the reminded-set concurrently.
C38_OnePollLoop ==
    /\ Cardinality(LivePollers) <= 1
    /\ Cardinality(Updating) <= 1

\* the answers that say that nothing is due
SentinelReplies == {NoTasksReply, NoneReply, AllClearReply}

\* the poll of thread t has found the sub-agent not running, or has got an
\* answer that says that nothing is due
NothingToSay(t) ==
    \/ poll_threads[t].kind = "not_running"
    \/ /\ poll_threads[t].kind = "answered"
       /\ poll_threads[t].text \in SentinelReplies

\* the poll of thread t has had no effect
Silent(t) ==
    /\ poll_threads[t].did = {}
    /\ poll_threads[t].at \notin {"adding", "gesture", "speaking"}

\* C39: when the sub-agent's answer is an empty sentinel (no tasks due) or
\* the sub-agent is not running, the poll speaks nothing, performs no
\* attention gesture and leaves the reminded-set unchanged: the step that
\* finds it (is_running() false at the beginning of the poll, or such an
\* answer returned by ask) ends the poll with the reminded-set as it was.
C39_NothingToSayIsSilent ==
    [][\A t \in DOMAIN poll_threads :
          /\ NothingToSay(t) => Silent(t)
          /\ \/ /\ poll_threads[t].at = "check"
                /\ poll_threads'[t].at # "check"
                /\ ~agent_running
             \/ /\ poll_threads[t].at = "asking"
                /\ poll_threads'[t].at # "asking"
                /\ poll_threads'[t].kind = "answered"
                /\ poll_threads'[t].text \in SentinelReplies
             => /\ poll_threads'[t].at = "waiting"
                /\ poll_threads'[t].did = {}
                /\ reminded_cache' = reminded_cache]_vars

\* C39 witness: after a reminder has been spoken, a poll has ended on the
\* answer "No tasks due." without an effect
C39_Witness ==
    \E t \in DOMAIN poll_threads :
        /\ poll_threads[t].kind = "answered"
        /\ poll_threads[t].text = NoTasksReply
        /\ poll_threads[t].at = "waiting"
        /\ poll_threads[t].did = {}
        /\ reminded_cache # {}

SpecAsk == Init /\ [][NextAsk]_vars

\* ask has returned the timed-out text for the request
TimedOut == ask_at = "returned" /\ ask_result = "timed out"

\* C37: after ask has returned the timed-out string for a request, no further
\* LLM round and no further tool call of that request is executed.
C37_NoWorkAfterTimeout ==
    [][TimedOut /\ TimedOut' =>
          /\ llm_calls' = llm_calls
          /\ tool_execs' = tool_execs
          /\ conversation' = conversation]_vars

====
